---------------------------- MODULE Spec2Model ----------------------------
(***************************************************************************)
(* CYD-Hurricane-Tracker: the image store, the streaming HTTP handlers,    *)
(* the container decoder, the carousel and the refresh / display tasks of  *)
(* src/main/main.c and src/main/http_client.c as one state machine.        *)
(*                                                                         *)
(* Buffers are modelled by identity and bookkeeping, not byte by byte: a   *)
(* slot buffer is NULL (0) or the number of the refresh cycle whose        *)
(* download allocated it (at most one malloc per slot per cycle), and its  *)
(* contents are the 12-byte container header the server sent (the image    *)
(* handler appends every chunk, so the buffer is a prefix of the body).    *)
(* The feed buffer keeps which byte ranges of the body it holds.           *)
(***************************************************************************)
EXTENDS Integers, Sequences, FiniteSets, TLC

(***************************************************************************)
(* Program constants                                                       *)
(***************************************************************************)
STATIC_IMAGE_COUNT == 2
SLACK == 1024
MIN_VALID_IMAGE_SIZE == 100
IMAGE_HEADER_SIZE == 12
MAX_DIMENSION == 4096
\* sizeof(ctx_t.title)
TITLE_SIZE == 256
\* the initial capacity of ctx.all_urls
URL_CAPACITY == 4
\* strlen("Graphics")
GRAPHICS_LEN == 8

(***************************************************************************)
(* Bounds of the model                                                     *)
(***************************************************************************)
\* number of image slots (10 in app_config.h, scaled down)
MAX_IMAGES == 3
\* refresh cycles update_image_task runs
MaxCycles == 2
\* data events delivered in one HTTP exchange, whole program
MaxChunks == 1
\* data events delivered in one HTTP exchange, fetch specification
MaxFetchChunks == 3
\* pending notifications of the display task
MaxNotify == 1
\* pending notifications of the display task, carousel specification
MaxSignals == 3
\* activity events (touches, PIR edges) reported
MaxEvents == 3
\* items of a feed document
MaxItems == 3
\* character-data events inside one title or description element
MaxTexts == 2

NULL == 0
\* values of an image pointer: no image, the bundled error_image, or
\* << "slot", i >> for &s_images[i].img_dsc
NO_IMAGE == << "NULL", 0 >>
ERROR_IMAGE == << "error_image", 0 >>
\* a NULL entry of image_urls
NO_URL == << "NULL", 0 >>
ESP_OK == "ESP_OK"
ESP_FAIL == "ESP_FAIL"
ESP_ERR_NO_MEM == "ESP_ERR_NO_MEM"

Slots == 0 .. (MAX_IMAGES - 1)

Min(a, b) == IF a < b THEN a ELSE b

VARIABLES
    s_images,                \* main.c:127  image_data_t s_images[MAX_IMAGES]
    image_urls,              \* main.c:91   char* image_urls[MAX_IMAGES]
    active_image_count,      \* main.c:93
    s_current_image_index,   \* main.c:128
    s_current_display_image, \* main.c:442  an image pointer
    s_image_cycle_timer,     \* main.c:129  "NULL" or "running"
    notify,                  \* notification count of display_image_task
    xml_response,            \* http_client.c:381  http_download_t
    http,                    \* the HTTP exchange in flight
    upc,                     \* position of update_image_task
    u,                       \* locals of update_image_task
    dpc,                     \* position of display_image_task
    d,                       \* locals of display_image_task
    rendered,                \* the image last handed to the render sink
    parse,                   \* a call of xml_parse_all_cone_image_urls
    signal,                  \* the notifications update_image_task gave
    light                    \* the backlight: flag, mutex, timer, its users

vars == << s_images, image_urls, active_image_count, s_current_image_index,
           s_current_display_image, s_image_cycle_timer, notify, xml_response,
           http, upc, u, dpc, d, rendered, parse, signal, light >>

(***************************************************************************)
(* Image container headers (main.c:18-30) and what the server can send     *)
(***************************************************************************)
NoContent == [magic |-> 0, cf |-> 0, w |-> 0, h |-> 0]

\* lv_img_dsc_t after memset 0 (main.c:891); data names the buffer it points
\* into and data_offset the offset in it
ZeroDsc == [w |-> 0, h |-> 0, cf |-> "UNKNOWN", data |-> NULL,
            data_offset |-> 0, data_size |-> 0]

\* image_data_t as app_main initialises it (main.c:885-892)
EmptySlot ==
    [buffer |-> NULL, buffer_size |-> 0, buffer_allocated |-> 0,
     content |-> NoContent, img_dsc |-> ZeroDsc, is_valid |-> FALSE,
     download_timestamp |-> 0]

\* http_download_t after memset 0 (http_client.c:179); segs: the byte ranges
\* <<from, len>> of the response body the buffer holds, in buffer order
EmptyDownload ==
    [buffer |-> NULL, buffer_size |-> 0, buffer_allocated |-> 0, segs |-> << >>]

\* ndata data events and sent body bytes delivered so far; err and status_code
\* are the locals of http_download_xml_feed / http_download_image once
\* esp_http_client_perform has returned
NoExchange == [ndata |-> 0, sent |-> 0, err |-> ESP_OK, status_code |-> 0]

IdleU == [i |-> 0, successful_downloads |-> 0, processed_images |-> 0,
          attempts |-> 0, images_to_check |-> 0, err |-> ESP_OK,
          initial_update_done |-> FALSE, cycle |-> 0]

IdleD == [attempts |-> 0, images_to_check |-> 0]

\* ctx_t after ctx = {0} (xml_parse.c:200). The title is the number of bytes
\* it holds and whether they contain "Graphics"; the description is the
\* character data appended to it, in order; all_urls holds url_count strings.
ZeroCtx ==
    [in_item |-> FALSE, in_title |-> FALSE, in_description |-> FALSE,
     title |-> [len |-> 0, graphics |-> FALSE],
     description |-> [allocated |-> FALSE, text |-> << >>],
     found_url |-> NO_URL,
     all_urls |-> [allocated |-> FALSE, urls |-> << >>],
     url_count |-> 0, url_capacity |-> 0, fault |-> FALSE]

\* the document expat is reading, as far as it has been delivered: the number
\* of items opened, and of the item being read the length of its title text,
\* the offset of the first "Graphics" in it (-1: none), the first src value
\* of its description text, and which elements it has had
NoDocument ==
    [items |-> 0, title_len |-> 0, graphics_at |-> -1, first_src |-> NO_URL,
     title_done |-> FALSE, description_done |-> FALSE, texts |-> 0,
     by_title |-> << >>, by_stored_title |-> << >>]

\* what xml_parse_all_cone_image_urls hands back: the array (or NULL) and *count
NoResult == [null |-> TRUE, urls |-> << >>, count |-> 0]

\* no call of xml_parse_all_cone_image_urls yet
IdleParse ==
    [pos |-> "idle", ctx |-> ZeroCtx, doc |-> NoDocument, result |-> NoResult]

\* a call of xTaskNotifyGive by update_image_task (main.c:731-733, 761-763,
\* 770-772): the branch that made it and the refresh cycle it ends
NoGive == [kind |-> "none", cycle |-> 0]

\* the notifications of update_image_task: the calls it made in the running
\* cycle, its call display_image_task has not taken yet and the one the task
\* took at its last wake-up; count is the value ulTaskNotifyTake returned at
\* that wake-up and renders the renders the task made since, both until it
\* waits again
NoSignal == [given |-> 0, pending |-> NoGive, taken |-> NoGive, count |-> 0,
             renders |-> 0]

\* the record after xTaskNotifyGive in update_image_task
Give(sig, kind, cycle) ==
    [sig EXCEPT !.given = @ + 1, !.pending = [kind |-> kind, cycle |-> cycle]]

\* the backlight before app_main has created its mutex and its timer
\* (main.c:80-85): backlight_on is initialised to true, the handles to NULL.
\* input is the activity input the firmware is built with ("touch", "pir" or
\* "none"); backlight_mutex is the set of its holders; pc and state are the
\* position and the local of get_backlight_state of the two users of the
\* mutex, the timer service task ("timer") and the task that reports
\* activity ("input": the LVGL task running touch_event_cb, or
\* pir_monitoring_task); events counts the activity events reported and
\* was_off tells whether the backlight was off when the handler of the event
\* being handled started
NoLight ==
    [booted |-> FALSE, input |-> "none", backlight_on |-> TRUE,
     backlight_mutex |-> {}, backlight_timer |-> "NULL",
     pir_motion_semaphore |-> 0, events |-> 0, was_off |-> FALSE,
     pc |-> [timer |-> "idle", input |-> "idle"],
     state |-> [timer |-> FALSE, input |-> FALSE]]

Init ==
    /\ s_images = [i \in Slots |-> EmptySlot]
    /\ image_urls = [i \in Slots |-> NO_URL]
    /\ active_image_count = 0
    /\ s_current_image_index = 0
    /\ s_current_display_image = NO_IMAGE
    /\ s_image_cycle_timer = "NULL"
    /\ notify = 0
    /\ xml_response = EmptyDownload
    /\ http = NoExchange
    /\ upc = "poll"
    /\ u = IdleU
    /\ dpc = "wait"
    /\ d = IdleD
    /\ rendered = NO_IMAGE
    /\ parse = IdleParse
    /\ signal = NoSignal
    /\ light = NoLight

(***************************************************************************)
(* Image store (main.c:132-167)                                            *)
(***************************************************************************)
\* set_image_buffer_info: buffer, sizes and the validity flag, nothing else
set_image_buffer_info(slot, buffer, buffer_size, buffer_allocated, is_valid) ==
    [slot EXCEPT !.buffer = buffer, !.buffer_size = buffer_size,
                 !.buffer_allocated = buffer_allocated, !.is_valid = is_valid]

\* reset_image_buffer: frees the buffer; the descriptor img_dsc is not touched
reset_image_buffer(slot) ==
    [slot EXCEPT !.buffer = NULL, !.buffer_size = 0, !.buffer_allocated = 0,
                 !.content = NoContent, !.is_valid = FALSE,
                 !.download_timestamp = 0]


(***************************************************************************)
(* Streaming fetcher: the two event handlers (http_client.c:46-168)        *)
(***************************************************************************)
\* the buffer after appending n bytes that start at body offset from
AppendSeg(segs, from, n) ==
    IF segs # << >> /\ segs[Len(segs)][1] + segs[Len(segs)][2] = from
    THEN [segs EXCEPT ![Len(segs)] = << @[1], @[2] + n >>]
    ELSE Append(segs, << from, n >>)

\* generic_http_event_handler, HTTP_EVENT_ON_HEADER with key Content-Length.
\* buffer_allocated is assigned before the NULL check of malloc's result.
GenericOnHeader(download, content_length, malloc_ok) ==
    IF content_length > 0 /\ download.buffer = NULL
    THEN IF malloc_ok
         THEN [download EXCEPT !.buffer = 1,
                               !.buffer_allocated = content_length + SLACK,
                               !.buffer_size = 0]
         ELSE [download EXCEPT !.buffer_allocated = content_length + SLACK]
    ELSE download

\* mutant: the declared Content-Length, not the allocation, is the ceiling
GenericOnDataDeclaredCeiling(download, data_len, from) ==
    IF data_len > 0 /\ download.buffer # NULL
    THEN IF download.buffer_size + data_len < download.buffer_allocated - SLACK
         THEN [download EXCEPT !.buffer_size = @ + data_len,
                               !.segs = AppendSeg(@, from, data_len)]
         ELSE download
    ELSE download

\* generic_http_event_handler, HTTP_EVENT_ON_DATA: a chunk is copied whole
\* when it ends strictly below the allocation, and not at all otherwise
GenericOnData(download, data_len, from) ==
    IF data_len > 0 /\ download.buffer # NULL
    THEN IF download.buffer_size + data_len < download.buffer_allocated
         THEN [download EXCEPT !.buffer_size = @ + data_len,
                               !.segs = AppendSeg(@, from, data_len)]
         ELSE download
    ELSE download

\* image_http_event_handler, HTTP_EVENT_ON_HEADER with key Content-Length;
\* gen names the buffer malloc returns
ImageOnHeader(slot, content_length, malloc_ok, gen) ==
    IF content_length > 0 /\ slot.buffer = NULL
    THEN IF malloc_ok
         THEN set_image_buffer_info(slot, gen, 0, content_length + SLACK, FALSE)
         ELSE slot
    ELSE slot

\* image_http_event_handler, HTTP_EVENT_ON_DATA: memcpy at buffer + buffer_size
\* with no comparison against buffer_allocated. A copy that ends past the
\* allocation writes outside the heap block; the bookkeeping the code keeps
\* (buffer_size > buffer_allocated) is what the model records of it.
ImageOnData(slot, data_len, content) ==
    IF data_len > 0 /\ slot.buffer # NULL
    THEN set_image_buffer_info(
             [slot EXCEPT !.content = IF slot.buffer_size = 0 THEN content ELSE @],
             slot.buffer, slot.buffer_size + data_len, slot.buffer_allocated, FALSE)
    ELSE slot

\* http_download_free
http_download_free(download) ==
    IF download.buffer # NULL
    THEN [download EXCEPT !.buffer = NULL, !.buffer_size = 0,
                          !.buffer_allocated = 0, !.segs = << >>]
    ELSE download

\* http_download_xml_feed after esp_http_client_perform: the result it returns
\* and the result structure it leaves
XmlFetchResult(err, status_code, result) ==
    IF err = ESP_OK /\ status_code = 200 /\ result.buffer # NULL
       /\ result.buffer_size > 0
    THEN [ret |-> ESP_OK, download |-> result]
    ELSE [ret |-> ESP_FAIL, download |-> http_download_free(result)]

\* mutant: no minimum body size
ImageFetchResultNoMinimum(err, status_code, slot) ==
    IF err = ESP_OK /\ status_code = 200 /\ slot.buffer # NULL
       /\ slot.buffer_size > 0
    THEN [ret |-> ESP_OK,
          slot |-> set_image_buffer_info(slot, slot.buffer, slot.buffer_size,
                       slot.buffer_allocated, TRUE)]
    ELSE [ret |-> IF err = ESP_OK THEN ESP_FAIL ELSE err, slot |-> slot]

\* http_download_image after esp_http_client_perform: the value it returns and
\* the slot it leaves. Only the success branch touches the slot.
ImageFetchResult(err, status_code, slot) ==
    IF err = ESP_OK
    THEN IF status_code # 200
         THEN [ret |-> ESP_FAIL, slot |-> slot]
         ELSE IF slot.buffer # NULL /\ slot.buffer_size > 0
              THEN IF slot.buffer_size < MIN_VALID_IMAGE_SIZE
                   THEN [ret |-> ESP_FAIL, slot |-> slot]
                   ELSE [ret |-> ESP_OK,
                         slot |-> set_image_buffer_info(slot, slot.buffer,
                                      slot.buffer_size, slot.buffer_allocated, TRUE)]
              ELSE [ret |-> ESP_FAIL, slot |-> slot]
    ELSE [ret |-> err, slot |-> slot]

(***************************************************************************)
(* Image decoder (main.c:259-416)                                          *)
(***************************************************************************)
\* mutant: unknown codes fall to L8
MapColorFormatUnknownL8(color_format) ==
    IF color_format \in {18, 15, 16, 20, 19, 17}
    THEN CASE color_format = 18 -> "RGB565"
           [] color_format = 15 -> "RGB888"
           [] color_format = 16 -> "ARGB8888"
           [] color_format = 20 -> "RGB565A8"
           [] color_format = 19 -> "ARGB8565"
           [] color_format = 17 -> "XRGB8888"
    ELSE "L8"

\* the colour-format switch of process_downloaded_image (main.c:323-357)
MapColorFormat(color_format) ==
    CASE color_format = 18 -> "RGB565"
      [] color_format = 15 -> "RGB888"
      [] color_format = 16 -> "ARGB8888"
      [] color_format = 20 -> "RGB565A8"
      [] color_format = 19 -> "ARGB8565"
      [] color_format = 17 -> "XRGB8888"
      [] color_format = 6  -> "L8"
      [] OTHER -> "RGB565"

\* mutant: the alpha plane of RGB565A8 is not counted
BytesPerPixelNoAlphaPlane(cf) ==
    CASE cf = "RGB888" -> 3
      [] cf \in {"ARGB8888", "XRGB8888"} -> 4
      [] cf = "ARGB8565" -> 3
      [] cf = "L8" -> 1
      [] OTHER -> 2

\* mutant: XRGB8888 is taken for a 3-byte format
BytesPerPixelXrgbOf3(cf) ==
    CASE cf \in {"RGB888", "XRGB8888", "RGB565A8", "ARGB8565"} -> 3
      [] cf = "ARGB8888" -> 4
      [] cf = "L8" -> 1
      [] OTHER -> 2

\* the bytes-per-pixel switch (main.c:363-387)
BytesPerPixel(cf) ==
    CASE cf = "RGB565" -> 2
      [] cf = "RGB888" -> 3
      [] cf \in {"ARGB8888", "XRGB8888"} -> 4
      [] cf = "RGB565A8" -> 3
      [] cf = "ARGB8565" -> 3
      [] cf = "L8" -> 1
      [] OTHER -> 2

\* a decoder that differs from process_downloaded_image in the header size it
\* insists on, the dimension limit, the format mapping or the pixel sizes
DecodeVariant(slot, now, header_size, max_dimension, Format(_), PixelSize(_)) ==
    IF slot.buffer # NULL /\ slot.buffer_size > 0
    THEN IF slot.buffer_size < header_size
         THEN [ret |-> ESP_FAIL, slot |-> slot, read |-> 0]
         ELSE LET hdr == slot.content
                  cf == Format(hdr.cf)
                  expected_size == hdr.w * hdr.h * PixelSize(cf)
                  s1 == [slot EXCEPT !.img_dsc.w = hdr.w, !.img_dsc.h = hdr.h]
                  s2 == [s1 EXCEPT !.img_dsc.cf = cf,
                                   !.img_dsc.data = slot.buffer,
                                   !.img_dsc.data_offset = 12]
              IN  IF hdr.w > max_dimension \/ hdr.h > max_dimension
                     \/ hdr.w = 0 \/ hdr.h = 0
                  THEN [ret |-> ESP_FAIL,
                        slot |-> [s1 EXCEPT !.is_valid = FALSE],
                        read |-> IMAGE_HEADER_SIZE]
                  ELSE IF slot.buffer_size < expected_size + IMAGE_HEADER_SIZE
                  THEN [ret |-> ESP_FAIL,
                        slot |-> [s2 EXCEPT !.is_valid = FALSE],
                        read |-> IMAGE_HEADER_SIZE]
                  ELSE [ret |-> ESP_OK,
                        slot |-> [s2 EXCEPT !.img_dsc.data_size = expected_size,
                                            !.is_valid = TRUE,
                                            !.download_timestamp = now],
                        read |-> IMAGE_HEADER_SIZE]
    ELSE [ret |-> ESP_FAIL, slot |-> slot, read |-> 0]

\* mutant: only the 8-byte check guards the header reads
process_downloaded_imageHeaderOf8(slot, now) ==
    DecodeVariant(slot, now, 8, MAX_DIMENSION, MapColorFormat, BytesPerPixel)

\* mutant: the dimension limit is the range of the 16-bit header fields
process_downloaded_imageNoLimit(slot, now) ==
    DecodeVariant(slot, now, IMAGE_HEADER_SIZE, 65535, MapColorFormat,
                  BytesPerPixel)

\* process_downloaded_image on one slot: the value returned, the slot left and
\* the number of leading bytes of the buffer it read (the header, bytes 0-11).
\* Width and height reach the descriptor before they are checked, format and
\* data pointer before the size is checked. expected_size is a size_t of 32
\* bits; it is computed only for dimensions that passed the check, where the
\* product is at most 4096 * 4096 * 4 = 2^26.
process_downloaded_image(slot, now) ==
    IF slot.buffer # NULL /\ slot.buffer_size > 0
    THEN IF slot.buffer_size < 8 \/ slot.buffer_size < IMAGE_HEADER_SIZE
         THEN [ret |-> ESP_FAIL, slot |-> slot, read |-> 0]
         ELSE LET hdr == slot.content
                  s1 == [slot EXCEPT !.img_dsc.w = hdr.w, !.img_dsc.h = hdr.h]
              IN  IF hdr.w > MAX_DIMENSION \/ hdr.h > MAX_DIMENSION
                     \/ hdr.w = 0 \/ hdr.h = 0
                  THEN [ret |-> ESP_FAIL,
                        slot |-> [s1 EXCEPT !.is_valid = FALSE],
                        read |-> IMAGE_HEADER_SIZE]
                  ELSE LET cf == MapColorFormat(hdr.cf)
                           s2 == [s1 EXCEPT !.img_dsc.cf = cf,
                                            !.img_dsc.data = slot.buffer,
                                   !.img_dsc.data_offset = 12]
                           expected_size == hdr.w * hdr.h * BytesPerPixel(cf)
                       IN  IF slot.buffer_size < expected_size + IMAGE_HEADER_SIZE
                           THEN [ret |-> ESP_FAIL,
                                 slot |-> [s2 EXCEPT !.is_valid = FALSE],
                                 read |-> IMAGE_HEADER_SIZE]
                           ELSE [ret |-> ESP_OK,
                                 slot |-> [s2 EXCEPT
                                              !.img_dsc.data_size = expected_size,
                                              !.is_valid = TRUE,
                                              !.download_timestamp = now],
                                 read |-> IMAGE_HEADER_SIZE]
    ELSE [ret |-> ESP_FAIL, slot |-> slot, read |-> 0]

(***************************************************************************)
(* Carousel (main.c:420-439)                                               *)
(***************************************************************************)
\* images_to_check of get_next_valid_image, images_to_cycle of display_image_task
ImagesToCheck(count) == IF count > 0 THEN count ELSE MAX_IMAGES

\* mutant: the cursor moves on without wrapping
NextIndexNoWrap(index, images_to_check) == index + 1

\* the cursor after "move to next image"
NextIndex(index, images_to_check) == (index + 1) % images_to_check

\* mutant: the loop condition is attempts <= images_to_check
GetNextStepOneMore(images, cursor, attempts, images_to_check) ==
    IF attempts <= images_to_check
    THEN IF images[cursor].is_valid
         THEN [done |-> TRUE, ret |-> << "slot", cursor >>,
               cursor |-> cursor, attempts |-> attempts]
         ELSE [done |-> FALSE, ret |-> NO_IMAGE,
               cursor |-> NextIndex(cursor, images_to_check),
               attempts |-> attempts + 1]
    ELSE [done |-> TRUE, ret |-> ERROR_IMAGE,
          cursor |-> cursor, attempts |-> attempts]

\* one pass of the while loop of get_next_valid_image from the shared cursor:
\* done with the slot found or with the fallback, or one more attempt made
GetNextStep(images, cursor, attempts, images_to_check) ==
    IF attempts < images_to_check
    THEN IF images[cursor].is_valid
         THEN [done |-> TRUE, ret |-> << "slot", cursor >>,
               cursor |-> cursor, attempts |-> attempts]
         ELSE [done |-> FALSE, ret |-> NO_IMAGE,
               cursor |-> NextIndex(cursor, images_to_check),
               attempts |-> attempts + 1]
    ELSE [done |-> TRUE, ret |-> ERROR_IMAGE,
          cursor |-> cursor, attempts |-> attempts]

\* get_next_valid_image run to its return from the pass it is in: the image
\* returned, the cursor left and the attempts made
RECURSIVE GetNextRun(_, _, _, _)
GetNextRun(images, cursor, attempts, images_to_check) ==
    LET r == GetNextStep(images, cursor, attempts, images_to_check)
    IN  IF r.done THEN r
        ELSE GetNextRun(images, r.cursor, r.attempts, images_to_check)

(***************************************************************************)
(* What the collaborators can deliver                                      *)
(***************************************************************************)
\* a container of 11 x 4 RGB565 pixels: 88 payload bytes, 100 with the header
GoodImage == [magic |-> 25, cf |-> 18, w |-> 11, h |-> 4]
\* a container whose header announces a width of 0
BadImage == [magic |-> 25, cf |-> 18, w |-> 0, h |-> 4]

StaticUrl(i) == << "static", i >>
ConeUrl(i) == << "cone", i >>

\* whole program: one Content-Length, one chunk size
ContentLengths == {100}
ChunkLens == {100}
Contents == {GoodImage, BadImage}
StatusCodes == {200, 404}
TransportResults == {ESP_OK, ESP_FAIL}
MallocResults == {TRUE}
\* what xml_parse_all_cone_image_urls returns for the feed the server sent
ConeUrlLists == {<< >>, << ConeUrl(1) >>, << ConeUrl(1), ConeUrl(2) >>}

\* fetch specification: absent, zero and positive Content-Length, chunks that
\* fit, chunks that do not, allocation failure
FetchContentLengths == {0, 100}
FetchChunkLens == {20, 40, 1100}
FetchMallocResults == {TRUE, FALSE}
\* decode specification: the body lengths and the container headers the
\* conversion service can answer with for the first image: too short for a
\* header, around the payload a header announces, known and unknown formats,
\* dimensions at and beyond the limits
DecodeLengths == {5, 11, 12, 55, 56, 57, 99, 100, 101, 143, 144, 145,
                  187, 188, 189, 33554444, 67108875, 67108876}
DecodeContents ==
    [magic : {25, 0}, cf : {18, 15, 16, 20, 19, 17, 6, 0, 255},
     w : {0, 11, 4096, 4097}, h : {0, 4, 4096, 4097}]

(***************************************************************************)
(* update_image_task (main.c:676-779) and the functions it calls           *)
(***************************************************************************)
\* the poll at the top of the loop; a refresh starts with
\* http_update_image_urls_from_xml -> http_download_xml_feed, which clears the
\* result structure and starts the exchange
U_Poll(nhc_update_time) ==
    /\ upc = "poll"
    /\ IF ~u.initial_update_done \/ nhc_update_time
       THEN /\ u.cycle < MaxCycles
            /\ u' = [u EXCEPT !.initial_update_done = TRUE, !.cycle = @ + 1]
            /\ xml_response' = EmptyDownload
            /\ http' = NoExchange
            /\ upc' = "xml_perform"
            /\ signal' = [signal EXCEPT !.given = 0]
       ELSE UNCHANGED << signal, u, xml_response, http, upc >>
    /\ UNCHANGED << light, parse, s_images, image_urls, active_image_count,
                    s_current_image_index, s_current_display_image,
                    s_image_cycle_timer, notify, dpc, d, rendered >>

\* esp_http_client_perform delivers a Content-Length header to
\* generic_http_event_handler
U_XmlHeader(content_length, malloc_ok) ==
    /\ upc = "xml_perform"
    /\ xml_response' = GenericOnHeader(xml_response, content_length, malloc_ok)
    /\ UNCHANGED << light, signal, parse, s_images, image_urls, active_image_count,
                    s_current_image_index, s_current_display_image,
                    s_image_cycle_timer, notify, http, upc, u, dpc, d,
                    rendered >>

\* esp_http_client_perform delivers the next data_len bytes of the body
U_XmlData(data_len, max_chunks) ==
    /\ upc = "xml_perform"
    /\ http.ndata < max_chunks
    /\ xml_response' = GenericOnData(xml_response, data_len, http.sent)
    /\ http' = [http EXCEPT !.ndata = @ + 1, !.sent = @ + data_len]
    /\ UNCHANGED << light, signal, parse, s_images, image_urls, active_image_count,
                    s_current_image_index, s_current_display_image,
                    s_image_cycle_timer, notify, upc, u, dpc, d, rendered >>

\* esp_http_client_perform returns in http_download_xml_feed (http_client.c:197-199)
U_XmlReturn(err, status_code) ==
    /\ upc = "xml_perform"
    /\ http' = [http EXCEPT !.err = err, !.status_code = status_code]
    /\ upc' = "xml_check"
    /\ UNCHANGED << light, signal, parse, s_images, image_urls, active_image_count,
                    s_current_image_index, s_current_display_image,
                    s_image_cycle_timer, notify, xml_response, u, dpc, d,
                    rendered >>

\* http_download_xml_feed decides and returns, then
\* http_update_image_urls_from_xml calls http_cleanup_image_urls (both branches)
U_XmlCheck ==
    /\ upc = "xml_check"
    /\ LET r == XmlFetchResult(http.err, http.status_code, xml_response)
       IN  /\ xml_response' = r.download
           /\ u' = [u EXCEPT !.err = r.ret]
    /\ image_urls' = [i \in Slots |-> NO_URL]
    /\ active_image_count' = 0
    /\ http' = NoExchange
    /\ upc' = "urls_assign"
    /\ UNCHANGED << light, signal, parse, s_images, s_current_image_index, s_current_display_image,
                    s_image_cycle_timer, notify, dpc, d, rendered >>

\* mutant: when the cones do not all fit, the last ones are kept
AssignUrlsLastCones(feed_ok, cone_urls) ==
    LET static_to_use == Min(STATIC_IMAGE_COUNT, MAX_IMAGES)
        cones_to_add ==
            IF feed_ok
            THEN Min(Len(cone_urls), MAX_IMAGES - static_to_use)
            ELSE 0
    IN  [i \in 1 .. (static_to_use + cones_to_add) |->
            IF i <= static_to_use THEN StaticUrl(i - 1)
            ELSE cone_urls[Len(cone_urls) - cones_to_add + i - static_to_use]]

\* mutant: every cone URL is added
AssignUrlsUnclamped(feed_ok, cone_urls) ==
    LET static_to_use == Min(STATIC_IMAGE_COUNT, MAX_IMAGES)
        cones_to_add == IF feed_ok THEN Len(cone_urls) ELSE 0
    IN  [i \in 1 .. (static_to_use + cones_to_add) |->
            IF i <= static_to_use THEN StaticUrl(i - 1)
            ELSE cone_urls[i - static_to_use]]

\* the slot-assignment list http_update_image_urls_from_xml builds
\* (http_client.c:390-435 on success, 443-449 on failure)
AssignUrls(feed_ok, cone_urls) ==
    LET static_to_use == Min(STATIC_IMAGE_COUNT, MAX_IMAGES)
        cones_to_add ==
            IF feed_ok
            THEN IF static_to_use + Len(cone_urls) > MAX_IMAGES
                 THEN MAX_IMAGES - static_to_use
                 ELSE Len(cone_urls)
            ELSE 0
    IN  [i \in 1 .. (static_to_use + cones_to_add) |->
            IF i <= static_to_use THEN StaticUrl(i - 1)
            ELSE cone_urls[i - static_to_use]]

\* the rest of http_update_image_urls_from_xml: the URLs, active_image_count,
\* http_download_free of the feed buffer; u.err, the result of
\* http_download_xml_feed until here, becomes the value the function returns,
\* ESP_OK in both branches (http_client.c:437, 451)
U_UrlsAssign(cone_urls) ==
    /\ upc = "urls_assign"
    /\ LET urls == AssignUrls(u.err = ESP_OK, cone_urls)
       IN  /\ image_urls' = [i \in Slots |->
                                IF i < Len(urls) THEN urls[i + 1] ELSE NO_URL]
           /\ active_image_count' = Len(urls)
    /\ xml_response' = http_download_free(xml_response)
    /\ u' = [u EXCEPT !.err = ESP_OK, !.i = 0, !.successful_downloads = 0]
    /\ upc' = "download_all"
    /\ UNCHANGED << light, signal, parse, s_images, s_current_image_index, s_current_display_image,
                    s_image_cycle_timer, notify, http, dpc, d, rendered >>

\* one pass of the loop of http_download_all_images, up to the call of
\* esp_http_client_perform in http_download_image: reset_image_buffer, the
\* request body. When the loop is over, update_image_task goes on to the
\* processing loop or to the error image.
U_ImageBegin(post_data_ok) ==
    /\ upc = "download_all"
    /\ IF active_image_count = 0 \/ u.i >= active_image_count
       THEN /\ IF active_image_count # 0 /\ u.successful_downloads > 0
               THEN upc' = "process"
               ELSE upc' = "publish_error"
            /\ u' = [u EXCEPT !.i = 0, !.successful_downloads = 0,
                              !.processed_images = 0]
            /\ UNCHANGED << light, signal, parse, s_images, http >>
       ELSE IF image_urls[u.i] = NO_URL
            THEN /\ u' = [u EXCEPT !.i = @ + 1]
                 /\ UNCHANGED << light, signal, parse, s_images, http, upc >>
            ELSE /\ s_images' = [s_images EXCEPT
                                    ![u.i] = reset_image_buffer(s_images[u.i])]
                 /\ IF post_data_ok
                    THEN /\ http' = NoExchange
                         /\ upc' = "image_perform"
                         /\ u' = u
                    ELSE /\ u' = [u EXCEPT !.i = @ + 1]
                         /\ UNCHANGED << light, signal, parse, http, upc >>
    /\ UNCHANGED << light, signal, parse, image_urls, active_image_count, s_current_image_index,
                    s_current_display_image, s_image_cycle_timer, notify,
                    xml_response, dpc, d, rendered >>

\* a Content-Length header reaches image_http_event_handler
U_ImageHeader(content_length, malloc_ok) ==
    /\ upc = "image_perform"
    /\ s_images' = [s_images EXCEPT
                       ![u.i] = ImageOnHeader(s_images[u.i], content_length,
                                              malloc_ok, u.cycle)]
    /\ UNCHANGED << light, signal, parse, image_urls, active_image_count, s_current_image_index,
                    s_current_display_image, s_image_cycle_timer, notify,
                    xml_response, http, upc, u, dpc, d, rendered >>

\* the next data_len bytes of the body reach image_http_event_handler; content
\* is the container header the body starts with
U_ImageData(data_len, content, max_chunks) ==
    /\ upc = "image_perform"
    /\ http.ndata < max_chunks
    /\ s_images' = [s_images EXCEPT
                       ![u.i] = ImageOnData(s_images[u.i], data_len, content)]
    /\ http' = [http EXCEPT !.ndata = @ + 1, !.sent = @ + data_len]
    /\ UNCHANGED << light, signal, parse, image_urls, active_image_count, s_current_image_index,
                    s_current_display_image, s_image_cycle_timer, notify,
                    xml_response, upc, u, dpc, d, rendered >>

\* esp_http_client_perform returns in http_download_image (http_client.c:288-296)
U_ImageReturn(err, status_code) ==
    /\ upc = "image_perform"
    /\ http' = [http EXCEPT !.err = err, !.status_code = status_code]
    /\ upc' = "image_check"
    /\ UNCHANGED << light, signal, parse, s_images, image_urls, active_image_count,
                    s_current_image_index, s_current_display_image,
                    s_image_cycle_timer, notify, xml_response, u, dpc, d,
                    rendered >>

\* http_download_image decides and returns (http_client.c:298-341); the loop of
\* http_download_all_images counts the success and moves to the next image
U_ImageCheck ==
    /\ upc = "image_check"
    /\ LET r == ImageFetchResult(http.err, http.status_code, s_images[u.i])
       IN  /\ s_images' = [s_images EXCEPT ![u.i] = r.slot]
           /\ u' = [u EXCEPT !.i = @ + 1,
                             !.successful_downloads =
                                 IF r.ret = ESP_OK THEN @ + 1 ELSE @]
    /\ http' = NoExchange
    /\ upc' = "download_all"
    /\ UNCHANGED << light, signal, parse, image_urls, active_image_count, s_current_image_index,
                    s_current_display_image, s_image_cycle_timer, notify,
                    xml_response, dpc, d, rendered >>

\* one pass of the processing loop of update_image_task (main.c:713-723); after
\* the last slot, the choice between publishing a slot and the error image
U_Process ==
    /\ upc = "process"
    /\ IF u.i < MAX_IMAGES
       THEN LET slot == s_images[u.i]
                r == process_downloaded_image(slot, u.cycle)
            IN  IF slot.buffer # NULL /\ slot.buffer_size > 0
                THEN /\ s_images' = [s_images EXCEPT ![u.i] =
                            IF r.ret = ESP_OK THEN r.slot
                            ELSE [r.slot EXCEPT !.is_valid = FALSE]]
                     /\ u' = [u EXCEPT !.i = @ + 1,
                                       !.processed_images =
                                           IF r.ret = ESP_OK THEN @ + 1 ELSE @]
                     /\ upc' = upc
                ELSE /\ u' = [u EXCEPT !.i = @ + 1]
                     /\ UNCHANGED << light, signal, parse, s_images, upc >>
       ELSE /\ IF u.processed_images > 0
               THEN /\ upc' = "publish_scan"
                    /\ u' = [u EXCEPT !.i = 0, !.processed_images = 0,
                                      !.attempts = 0,
                                      !.images_to_check =
                                          ImagesToCheck(active_image_count)]
               ELSE /\ upc' = "publish_error"
                    /\ u' = [u EXCEPT !.i = 0, !.processed_images = 0]
            /\ UNCHANGED s_images
    /\ UNCHANGED << light, signal, parse, image_urls, active_image_count, s_current_image_index,
                    s_current_display_image, s_image_cycle_timer, notify,
                    xml_response, http, dpc, d, rendered >>

\* s_current_display_image = get_next_valid_image() in update_image_task,
\* one pass of its loop at a time
U_PublishScan ==
    /\ upc = "publish_scan"
    /\ LET r == GetNextStep(s_images, s_current_image_index, u.attempts,
                            u.images_to_check)
       IN  /\ s_current_image_index' = r.cursor
           /\ IF r.done
              THEN /\ s_current_display_image' = r.ret
                   /\ upc' = "publish_notify"
                   /\ u' = [u EXCEPT !.attempts = 0, !.images_to_check = 0]
              ELSE /\ u' = [u EXCEPT !.attempts = r.attempts]
                   /\ UNCHANGED << light, signal, parse, s_current_display_image, upc >>
    /\ UNCHANGED << light, signal, parse, s_images, image_urls, active_image_count,
                    s_image_cycle_timer, notify, xml_response, http, dpc, d,
                    rendered >>

\* xTaskNotifyGive, then the carousel timer is restarted, or created and
\* started when there is none yet (main.c:731-756); create_ok tells whether
\* xTimerCreate returns a timer, and when it does not s_image_cycle_timer
\* stays NULL. The notification count is followed up to max_notify.
PublishNotify(max_notify, create_ok) ==
    /\ upc = "publish_notify"
    /\ notify' = Min(notify + 1, max_notify)
    /\ s_image_cycle_timer' =
           IF s_image_cycle_timer # "NULL" \/ create_ok THEN "running"
           ELSE "NULL"
    /\ upc' = "poll"
    /\ signal' = Give(signal, "image", u.cycle)
    /\ UNCHANGED << light, parse, s_images, image_urls, active_image_count,
                    s_current_image_index, s_current_display_image,
                    xml_response, http, u, dpc, d, rendered >>

\* whole program: xTimerCreate succeeds
U_PublishNotify == PublishNotify(MaxNotify, TRUE)

\* mutant: the error branches publish the error image without a notification
PublishErrorSilent(max_notify) ==
    /\ upc = "publish_error"
    /\ s_current_display_image' = ERROR_IMAGE
    /\ upc' = "poll"
    /\ UNCHANGED << light, signal, parse, s_images, image_urls,
                    active_image_count, s_current_image_index,
                    s_image_cycle_timer, notify, xml_response, http, u, dpc, d,
                    rendered >>

\* the two error branches: the error image is published and signalled
PublishError(max_notify) ==
    /\ upc = "publish_error"
    /\ s_current_display_image' = ERROR_IMAGE
    /\ notify' = Min(notify + 1, max_notify)
    /\ upc' = "poll"
    /\ signal' = Give(signal, "error", u.cycle)
    /\ UNCHANGED << light, parse, s_images, image_urls, active_image_count,
                    s_current_image_index, s_image_cycle_timer,
                    xml_response, http, u, dpc, d, rendered >>

\* mutant: the error branch leaves the loop of update_image_task
U_PublishErrorExits ==
    /\ upc = "publish_error"
    /\ s_current_display_image' = ERROR_IMAGE
    /\ upc' = "exited"
    /\ UNCHANGED << light, signal, parse, s_images, image_urls,
                    active_image_count, s_current_image_index,
                    s_image_cycle_timer, notify, xml_response, http, u, dpc, d,
                    rendered >>

U_PublishError == PublishError(MaxNotify)

(***************************************************************************)
(* image_cycle_timer_callback (main.c:446-454)                             *)
(***************************************************************************)
image_cycle_timer_callback(max_notify) ==
    /\ s_image_cycle_timer = "running"
    /\ notify' = Min(notify + 1, max_notify)
    /\ UNCHANGED << light, signal, parse, s_images, image_urls, active_image_count,
                    s_current_image_index, s_current_display_image,
                    s_image_cycle_timer, xml_response, http, upc, u, dpc, d,
                    rendered >>

TimerTick == image_cycle_timer_callback(MaxNotify)

(***************************************************************************)
(* display_image_task (main.c:654-673)                                     *)
(***************************************************************************)
\* mutant: ulTaskNotifyTake(pdFALSE, portMAX_DELAY), which takes one
\* notification and leaves the others pending
D_TakeOne ==
    /\ dpc = "wait"
    /\ notify > 0
    /\ notify' = notify - 1
    /\ d' = [attempts |-> 0,
             images_to_check |-> ImagesToCheck(active_image_count)]
    /\ dpc' = "scan"
    /\ signal' = [signal EXCEPT !.taken = signal.pending, !.pending = NoGive,
                                !.count = 1, !.renders = 0]
    /\ UNCHANGED << light, parse, s_images, image_urls, active_image_count,
                    s_current_image_index, s_current_display_image,
                    s_image_cycle_timer, xml_response, http, upc, u, rendered >>

\* ulTaskNotifyTake(pdTRUE, portMAX_DELAY) returns; get_next_valid_image starts
D_Take ==
    /\ dpc = "wait"
    /\ notify > 0
    /\ notify' = 0
    /\ d' = [attempts |-> 0,
             images_to_check |-> ImagesToCheck(active_image_count)]
    /\ dpc' = "scan"
    /\ signal' = [signal EXCEPT !.taken = signal.pending, !.pending = NoGive,
                                !.count = notify, !.renders = 0]
    /\ UNCHANGED << light, parse, s_images, image_urls, active_image_count,
                    s_current_image_index, s_current_display_image,
                    s_image_cycle_timer, xml_response, http, upc, u, rendered >>

\* one pass of the loop of get_next_valid_image in display_image_task
D_Scan ==
    /\ dpc = "scan"
    /\ LET r == GetNextStep(s_images, s_current_image_index, d.attempts,
                            d.images_to_check)
       IN  /\ s_current_image_index' = r.cursor
           /\ IF r.done
              THEN /\ s_current_display_image' = r.ret
                   /\ dpc' = "render"
                   /\ d' = IdleD
              ELSE /\ d' = [d EXCEPT !.attempts = r.attempts]
                   /\ UNCHANGED << light, signal, parse, s_current_display_image, dpc >>
    /\ UNCHANGED << light, signal, parse, s_images, image_urls, active_image_count,
                    s_image_cycle_timer, notify, xml_response, http, upc, u,
                    rendered >>

\* display_image_from_global_pointer (main.c:542-651)
D_Render ==
    /\ dpc = "render"
    /\ s_current_display_image' =
           IF s_current_display_image = NO_IMAGE THEN ERROR_IMAGE
           ELSE s_current_display_image
    /\ rendered' = s_current_display_image'
    /\ dpc' = "advance"
    /\ signal' = [signal EXCEPT !.renders = @ + 1]
    /\ UNCHANGED << light, parse, s_images, image_urls, active_image_count,
                    s_current_image_index, s_image_cycle_timer, notify,
                    xml_response, http, upc, u, d >>

\* "move to next image for next cycle" (main.c:669-670)
D_Advance ==
    /\ dpc = "advance"
    /\ s_current_image_index' =
           NextIndex(s_current_image_index, ImagesToCheck(active_image_count))
    /\ dpc' = "wait"
    /\ signal' = [signal EXCEPT !.taken = NoGive, !.count = 0, !.renders = 0]
    /\ UNCHANGED << light, parse, s_images, image_urls, active_image_count,
                    s_current_display_image, s_image_cycle_timer, notify,
                    xml_response, http, upc, u, d, rendered >>

(***************************************************************************)
(* Specifications                                                          *)
(***************************************************************************)
UpdateStep ==
    \/ \E t \in BOOLEAN : U_Poll(t)
    \/ \E cl \in ContentLengths, ok \in MallocResults : U_XmlHeader(cl, ok)
    \/ \E n \in ChunkLens : U_XmlData(n, MaxChunks)
    \/ \E e \in TransportResults, st \in StatusCodes : U_XmlReturn(e, st)
    \/ U_XmlCheck
    \/ \E urls \in ConeUrlLists : U_UrlsAssign(urls)
    \/ \E ok \in MallocResults : U_ImageBegin(ok)
    \/ \E cl \in ContentLengths, ok \in MallocResults : U_ImageHeader(cl, ok)
    \/ \E n \in ChunkLens, c \in Contents : U_ImageData(n, c, MaxChunks)
    \/ \E e \in TransportResults, st \in StatusCodes : U_ImageReturn(e, st)
    \/ U_ImageCheck
    \/ U_Process
    \/ U_PublishScan
    \/ U_PublishNotify
    \/ U_PublishError

DisplayStep ==
    \/ D_Take
    \/ D_Scan
    \/ D_Render
    \/ D_Advance

Next ==
    \/ UpdateStep
    \/ DisplayStep
    \/ TimerTick

Spec == Init /\ [][Next]_vars

\* The fetch phase of the first refresh cycle (feed fetch, then the image
\* fetches) against a server that may send any of the headers and chunks below
FetchNext ==
    \/ U_Poll(TRUE)
    \/ \E cl \in FetchContentLengths, ok \in FetchMallocResults :
           U_XmlHeader(cl, ok)
    \/ \E n \in FetchChunkLens : U_XmlData(n, MaxFetchChunks)
    \/ \E e \in TransportResults, st \in StatusCodes : U_XmlReturn(e, st)
    \/ U_XmlCheck
    \/ U_UrlsAssign(<< >>)
    \/ \E ok \in FetchMallocResults : U_ImageBegin(ok)
    \/ \E cl \in FetchContentLengths, ok \in FetchMallocResults :
           U_ImageHeader(cl, ok)
    \/ \E n \in FetchChunkLens : U_ImageData(n, GoodImage, MaxFetchChunks)
    \/ \E e \in TransportResults, st \in StatusCodes : U_ImageReturn(e, st)
    \/ U_ImageCheck

FetchSpec == Init /\ [][FetchNext]_vars


\* decode specification: one refresh cycle in which the feed fetch fails, the
\* first image is answered with any of the bodies above (its length announced
\* by Content-Length) and the second with a good image
DecodeNext ==
    \/ U_Poll(FALSE)
    \/ U_XmlReturn(ESP_FAIL, 0)
    \/ U_XmlCheck
    \/ U_UrlsAssign(<< >>)
    \/ U_ImageBegin(TRUE)
    \/ \E n \in (IF u.i = 0 THEN DecodeLengths ELSE {100}) :
           U_ImageHeader(n, TRUE)
    \/ /\ u.i \in Slots
       /\ s_images[u.i].buffer # NULL
       /\ \E content \in (IF u.i = 0 THEN DecodeContents ELSE {GoodImage}) :
              U_ImageData(s_images[u.i].buffer_allocated - SLACK, content,
                          MaxChunks)
    \/ \E status_code \in StatusCodes : U_ImageReturn(ESP_OK, status_code)
    \/ U_ImageCheck
    \/ U_Process
    \/ U_PublishScan
    \/ U_PublishNotify
    \/ U_PublishError

DecodeSpec == Init /\ [][DecodeNext]_vars

\* carousel specification: the refresh cycles with the feed fetch failing (the
\* fixed leading images only), every image answered with a body of 100 bytes,
\* good or bad, under any status, next to display_image_task and the carousel
\* timer, the notification count followed up to MaxSignals; xTimerCreate may
\* fail
CarouselNext ==
    \/ \E t \in BOOLEAN : U_Poll(t)
    \/ U_XmlReturn(ESP_FAIL, 0)
    \/ U_XmlCheck
    \/ U_UrlsAssign(<< >>)
    \/ U_ImageBegin(TRUE)
    \/ U_ImageHeader(100, TRUE)
    \/ \E content \in Contents : U_ImageData(100, content, MaxChunks)
    \/ \E status_code \in StatusCodes : U_ImageReturn(ESP_OK, status_code)
    \/ U_ImageCheck
    \/ U_Process
    \/ U_PublishScan
    \/ \E create_ok \in BOOLEAN : PublishNotify(MaxSignals, create_ok)
    \/ PublishError(MaxSignals)
    \/ image_cycle_timer_callback(MaxSignals)
    \/ D_Take
    \/ D_Scan
    \/ D_Render
    \/ D_Advance

CarouselSpec == Init /\ [][CarouselNext]_vars

\* the network calls of a refresh cycle return: esp_http_client_perform in
\* http_download_xml_feed and in http_download_image
NetworkReturns ==
    \/ \E e \in TransportResults, st \in StatusCodes : U_XmlReturn(e, st)
    \/ \E e \in TransportResults, st \in StatusCodes : U_ImageReturn(e, st)

\* the steps update_image_task makes on its own between network calls
UpdateLocalStep ==
    \/ U_XmlCheck
    \/ U_UrlsAssign(<< >>)
    \/ \E ok \in FetchMallocResults : U_ImageBegin(ok)
    \/ U_ImageCheck
    \/ U_Process
    \/ U_PublishScan
    \/ U_PublishNotify
    \/ U_PublishError

\* refresh specification: the refresh cycles of the fixed images (a feed that
\* is fetched yields no cone URL) under every combination of feed, fetch,
\* allocation and decode outcomes, next to display_image_task
RefreshNext ==
    \/ \E t \in BOOLEAN : U_Poll(t)
    \/ \E ok \in FetchMallocResults : U_XmlHeader(100, ok)
    \/ U_XmlData(100, MaxChunks)
    \/ \E ok \in FetchMallocResults : U_ImageHeader(100, ok)
    \/ \E c \in Contents : U_ImageData(100, c, MaxChunks)
    \/ NetworkReturns
    \/ UpdateLocalStep
    \/ DisplayStep

RefreshSpec == Init /\ [][RefreshNext]_vars

\* the scheduler runs both tasks (each blocks only in vTaskDelay and
\* ulTaskNotifyTake), and every network call returns
RefreshLiveSpec ==
    /\ RefreshSpec
    /\ WF_vars(NetworkReturns)
    /\ WF_vars(UpdateLocalStep)
    /\ WF_vars(DisplayStep)

(***************************************************************************)
(* Backlight (main.c:169-251, 786-812, 955-970): the flag backlight_on,    *)
(* backlight_mutex, the one-shot backlight_timer, and the tasks that use   *)
(* them.  A task that holds the mutex is at "get_read" or "set_write"; a   *)
(* task at "get_take" or "set_take" that finds the mutex held either       *)
(* waits (it takes no step) or gives up after its 10 ms (the next step).   *)
(* Timer commands sent with xTimerReset are taken to reach the timer.      *)
(***************************************************************************)
Users == {"timer", "input"}
Inputs == {"touch", "pir", "none"}

\* the rest of the program does not move in a step of the backlight
RestIdle ==
    UNCHANGED << s_images, image_urls, active_image_count,
                 s_current_image_index, s_current_display_image,
                 s_image_cycle_timer, notify, xml_response, http, upc, u, dpc,
                 d, rendered, parse, signal >>

\* mutant: a take that succeeds whoever holds the mutex
xSemaphoreTakeShared(mutex, p) == [ret |-> TRUE, mutex |-> mutex \cup {p}]

\* xSemaphoreTake(backlight_mutex, pdMS_TO_TICKS(10)) when the caller stops
\* waiting: pdTRUE with the mutex taken, or pdFALSE because it is still held
xSemaphoreTake(mutex, p) ==
    IF mutex = {} THEN [ret |-> TRUE, mutex |-> {p}]
    ELSE [ret |-> FALSE, mutex |-> mutex]

\* the argument of set_backlight_state: false in backlight_timer_callback,
\* true in touch_event_cb and pir_monitoring_task
SetArg(p) == p = "input"

\* where a caller continues after set_backlight_state: the callback returns,
\* an activity handler goes on to xTimerReset
AfterSet(p) == IF p = "timer" THEN "idle" ELSE "reset"

\* app_main: the mutex, set_backlight_state(true), the one-shot timer created
\* and started (main.c:865, 955-970); input is the build configuration
L_AppMain(input) ==
    /\ ~light.booted
    /\ light' = [NoLight EXCEPT !.booted = TRUE, !.input = input,
                                !.backlight_on = TRUE,
                                !.backlight_timer = "active"]
    /\ RestIdle

\* get_backlight_state up to the result of xSemaphoreTake (main.c:176-177);
\* when the take fails the function returns its initial state = false
L_GetTake(p) ==
    /\ light.pc[p] = "get_take"
    /\ LET r == xSemaphoreTake(light.backlight_mutex, p)
       IN  light' = IF r.ret
                    THEN [light EXCEPT !.backlight_mutex = r.mutex,
                                       !.pc[p] = "get_read"]
                    ELSE [light EXCEPT !.state[p] = FALSE, !.pc[p] = "got"]
    /\ RestIdle

\* state = backlight_on; xSemaphoreGive; return state (main.c:178-181)
L_GetRead(p) ==
    /\ light.pc[p] = "get_read"
    /\ light' = [light EXCEPT !.state[p] = light.backlight_on,
                              !.backlight_mutex = @ \ {p},
                              !.pc[p] = "got"]
    /\ RestIdle

\* set_backlight_state up to the result of xSemaphoreTake (main.c:191); when
\* the take fails the function returns without writing
L_SetTake(p) ==
    /\ light.pc[p] = "set_take"
    /\ LET r == xSemaphoreTake(light.backlight_mutex, p)
       IN  light' = IF r.ret
                    THEN [light EXCEPT !.backlight_mutex = r.mutex,
                                       !.pc[p] = "set_write"]
                    ELSE [light EXCEPT !.pc[p] = AfterSet(p)]
    /\ RestIdle

\* gpio_set_level; backlight_on = state; xSemaphoreGive (main.c:192-194)
L_SetWrite(p) ==
    /\ light.pc[p] = "set_write"
    /\ light' = [light EXCEPT !.backlight_on = SetArg(p),
                              !.backlight_mutex = @ \ {p},
                              !.pc[p] = AfterSet(p)]
    /\ RestIdle

\* the one-shot timer expires: it is dormant from now on and the timer
\* service task calls backlight_timer_callback
L_Expire ==
    /\ light.booted
    /\ light.backlight_timer = "active"
    /\ light.pc.timer = "idle"
    /\ light' = [light EXCEPT !.backlight_timer = "dormant",
                              !.pc.timer = "get_take"]
    /\ RestIdle

\* mutant: the callback re-arms the timer whatever the configuration
backlight_timer_callbackRearms(l) ==
    IF l.state.timer
    THEN [l EXCEPT !.backlight_timer = "active", !.pc.timer = "idle"]
    ELSE [l EXCEPT !.pc.timer = "idle"]

\* mutant: the callback turns the backlight off whatever the configuration
backlight_timer_callbackTurnsOff(l) ==
    IF l.state.timer
    THEN [l EXCEPT !.pc.timer = "set_take"]
    ELSE [l EXCEPT !.pc.timer = "idle"]

\* backlight_timer_callback once get_backlight_state has returned
\* (main.c:206-217): set_backlight_state(false) when an activity input is
\* configured, xTimerReset when none is
backlight_timer_callback(l) ==
    IF l.state.timer
    THEN IF l.input # "none"
         THEN [l EXCEPT !.pc.timer = "set_take"]
         ELSE [l EXCEPT !.backlight_timer = "active", !.pc.timer = "idle"]
    ELSE [l EXCEPT !.pc.timer = "idle"]

L_TimerDecide ==
    /\ light.pc.timer = "got"
    /\ light' = backlight_timer_callback(light)
    /\ RestIdle

\* LVGL calls touch_event_cb for a press (main.c:240-243)
L_Touch ==
    /\ light.booted
    /\ light.input = "touch"
    /\ light.pc.input = "idle"
    /\ light.events < MaxEvents
    /\ light' = [light EXCEPT !.pc.input = "get_take", !.events = @ + 1,
                              !.was_off = ~light.backlight_on]
    /\ RestIdle

\* pir_sensor_isr_handler gives the binary semaphore (main.c:225-233)
L_PirIsr ==
    /\ light.booted
    /\ light.input = "pir"
    /\ light.events < MaxEvents
    /\ light' = [light EXCEPT !.pir_motion_semaphore = 1, !.events = @ + 1]
    /\ RestIdle

\* pir_monitoring_task takes the semaphore (main.c:792-796)
L_PirTake ==
    /\ light.booted
    /\ light.input = "pir"
    /\ light.pc.input = "idle"
    /\ light.pir_motion_semaphore = 1
    /\ light' = [light EXCEPT !.pir_motion_semaphore = 0,
                              !.pc.input = "get_take",
                              !.was_off = ~light.backlight_on]
    /\ RestIdle

\* if (!get_backlight_state()) set_backlight_state(true) in touch_event_cb
\* (main.c:243-245) and pir_monitoring_task (main.c:796-798)
L_InputDecide ==
    /\ light.pc.input = "got"
    /\ light' = [light EXCEPT !.pc.input =
                     IF ~light.state.input THEN "set_take" ELSE "reset"]
    /\ RestIdle

\* xTimerReset(backlight_timer, 0) at the end of the handler (main.c:248-250,
\* 801-804): the timer runs its full period again
L_Reset ==
    /\ light.pc.input = "reset"
    /\ light' = [light EXCEPT !.backlight_timer = "active",
                              !.pc.input = "idle", !.was_off = FALSE]
    /\ RestIdle

\* the steps of the timer service task
TimerTaskStep ==
    \/ L_Expire
    \/ L_GetTake("timer")
    \/ L_GetRead("timer")
    \/ L_TimerDecide
    \/ L_SetTake("timer")
    \/ L_SetWrite("timer")

\* the steps of an activity handler once the event is reported
InputTaskStep ==
    \/ L_PirTake
    \/ L_GetTake("input")
    \/ L_GetRead("input")
    \/ L_InputDecide
    \/ L_SetTake("input")
    \/ L_SetWrite("input")
    \/ L_Reset

LightNext ==
    \/ \E input \in Inputs : L_AppMain(input)
    \/ L_Touch
    \/ L_PirIsr
    \/ TimerTaskStep
    \/ InputTaskStep

LightSpec == Init /\ [][LightNext]_vars

\* the timer service task and the activity task are scheduled again and again;
\* nothing obliges the user to touch the screen or to move
LightLiveSpec ==
    LightSpec /\ WF_vars(TimerTaskStep) /\ WF_vars(InputTaskStep)

(***************************************************************************)
(* Feed parser (xml_parse.c): the expat handlers and                       *)
(* xml_parse_all_cone_image_urls.  A run of character data is a record     *)
(* [kind, len, n]: kind "Graphics" is text that starts with "Graphics",    *)
(* kind "src" is markup holding src="<cone URL n>", kind "href" is markup  *)
(* holding href="...", any other kind is text with none of these.          *)
(***************************************************************************)
\* start_elem (xml_parse.c:22-44)
start_elem(c, el, malloc_ok) ==
    IF el = "item"
    THEN IF ~c.description.allocated /\ ~malloc_ok
         THEN [c EXCEPT !.in_item = TRUE,
                        !.title = [len |-> 0, graphics |-> FALSE]]
         ELSE [c EXCEPT !.in_item = TRUE,
                        !.title = [len |-> 0, graphics |-> FALSE],
                        !.description = [allocated |-> TRUE, text |-> << >>]]
    ELSE IF c.in_item /\ el = "title"
    THEN [c EXCEPT !.in_title = TRUE]
    ELSE IF c.in_item /\ el = "description"
    THEN [c EXCEPT !.in_description = TRUE]
    ELSE c

\* add_url_to_array (xml_parse.c:46-66)
add_url_to_array(c, url, realloc_ok, strdup_ok) ==
    IF c.url_count >= c.url_capacity /\ ~realloc_ok
    THEN c
    ELSE LET new_capacity ==
                 IF c.url_count >= c.url_capacity
                 THEN IF c.url_capacity = 0 THEN 4 ELSE c.url_capacity * 2
                 ELSE c.url_capacity
             grown == [c EXCEPT !.url_capacity = new_capacity,
                                !.all_urls.allocated = TRUE]
         IN  IF strdup_ok
             THEN [grown EXCEPT !.all_urls.urls = Append(@, url),
                                !.url_count = @ + 1]
             ELSE grown

\* the index of the first run of the given kind in a text, 0 when none:
\* strstr(c->description, "src=\"") and the strchr that ends the value
FirstOf(text, kind) ==
    IF \E i \in 1 .. Len(text) : text[i].kind = kind
    THEN CHOOSE i \in 1 .. Len(text) :
             /\ text[i].kind = kind
             /\ \A j \in 1 .. (i - 1) : text[j].kind # kind
    ELSE 0

\* mutant: a matched href is collected like a src
end_elemCollectsHref(c, el, realloc_ok, strdup_ok) ==
    IF el = "item"
    THEN IF c.title.graphics /\ c.description.allocated
         THEN LET p == IF FirstOf(c.description.text, "src") # 0
                       THEN FirstOf(c.description.text, "src")
                       ELSE FirstOf(c.description.text, "href")
              IN  IF p # 0
                  THEN [add_url_to_array(c, ConeUrl(c.description.text[p].n),
                            realloc_ok, strdup_ok)
                           EXCEPT !.in_item = FALSE]
                  ELSE [c EXCEPT !.in_item = FALSE]
         ELSE [c EXCEPT !.in_item = FALSE]
    ELSE IF el = "title"
    THEN [c EXCEPT !.in_title = FALSE]
    ELSE IF el = "description"
    THEN [c EXCEPT !.in_description = FALSE]
    ELSE c

\* end_elem (xml_parse.c:68-111); strstr on a description that was never
\* allocated dereferences NULL, recorded as fault
end_elem(c, el, realloc_ok, strdup_ok) ==
    IF el = "item"
    THEN IF c.title.graphics
         THEN IF ~c.description.allocated
              THEN [c EXCEPT !.fault = TRUE]
              ELSE LET p == FirstOf(c.description.text, "src")
                   IN  IF p # 0
                       THEN LET url == ConeUrl(c.description.text[p].n)
                                found ==
                                    IF c.found_url = NO_URL /\ strdup_ok
                                    THEN [c EXCEPT !.found_url = url]
                                    ELSE c
                                added ==
                                    IF found.all_urls.allocated
                                       \/ found.url_capacity > 0
                                    THEN add_url_to_array(found, url,
                                             realloc_ok, strdup_ok)
                                    ELSE found
                            IN  [added EXCEPT !.in_item = FALSE]
                       ELSE [c EXCEPT !.in_item = FALSE]
         ELSE [c EXCEPT !.in_item = FALSE]
    ELSE IF el = "title"
    THEN [c EXCEPT !.in_title = FALSE]
    ELSE IF el = "description"
    THEN [c EXCEPT !.in_description = FALSE]
    ELSE c

\* char_data (xml_parse.c:113-149): the title takes what fits in its 256
\* bytes, the description grows
char_data(c, s, realloc_ok) ==
    IF c.in_title
    THEN LET available == TITLE_SIZE - c.title.len - 1
             copy_len == Min(s.len, available)
         IN  IF available > 0
             THEN [c EXCEPT !.title =
                      [len |-> c.title.len + copy_len,
                       graphics |-> \/ c.title.graphics
                                    \/ /\ s.kind = "Graphics"
                                       /\ copy_len >= GRAPHICS_LEN]]
             ELSE c
    ELSE IF c.in_description /\ c.description.allocated
    THEN IF realloc_ok
         THEN [c EXCEPT !.description.text = Append(@, s)]
         ELSE c
    ELSE c

\* the runs of character data a feed can hold
GraphicsText == [kind |-> "Graphics", len |-> 15, n |-> 0]
AdvisoryText == [kind |-> "text", len |-> 8, n |-> 0]
LongText == [kind |-> "text", len |-> 250, n |-> 0]
SrcText(n) == [kind |-> "src", len |-> 30, n |-> n]
HrefText(n) == [kind |-> "href", len |-> 31, n |-> n]
Texts == {GraphicsText, AdvisoryText, LongText, SrcText(1), SrcText(2),
          HrefText(3)}
ParseMallocResults == {TRUE}

\* the rest of the program does not move during a call of the parser
ProgramIdle ==
    UNCHANGED << s_images, image_urls, active_image_count,
                 s_current_image_index, s_current_display_image,
                 s_image_cycle_timer, notify, xml_response, http, upc, u, dpc,
                 d, rendered, signal, light >>

\* xml_parse_all_cone_image_urls up to XML_Parse (xml_parse.c:199-213)
X_Begin(malloc_ok) ==
    /\ parse.pos = "idle"
    /\ IF malloc_ok
       THEN parse' = [parse EXCEPT
                !.pos = "channel",
                !.ctx = [ZeroCtx EXCEPT !.url_capacity = URL_CAPACITY,
                                        !.all_urls.allocated = TRUE]]
       ELSE parse' = [parse EXCEPT !.pos = "done", !.result = NoResult]
    /\ ProgramIdle

\* expat meets <item>
X_StartItem(malloc_ok) ==
    /\ parse.pos = "channel"
    /\ parse.doc.items < MaxItems
    /\ parse' = [parse EXCEPT
           !.pos = "item",
           !.ctx = start_elem(@, "item", malloc_ok),
           !.doc = [@ EXCEPT !.items = @ + 1, !.title_len = 0,
                             !.graphics_at = -1, !.first_src = NO_URL,
                             !.title_done = FALSE,
                             !.description_done = FALSE]]
    /\ ProgramIdle

\* expat meets <title> inside an item
X_StartTitle ==
    /\ parse.pos = "item"
    /\ ~parse.doc.title_done
    /\ parse' = [parse EXCEPT !.pos = "title",
                              !.ctx = start_elem(@, "title", TRUE),
                              !.doc.texts = 0]
    /\ ProgramIdle

\* expat meets <description> inside an item
X_StartDescription ==
    /\ parse.pos = "item"
    /\ ~parse.doc.description_done
    /\ parse' = [parse EXCEPT !.pos = "description",
                              !.ctx = start_elem(@, "description", TRUE),
                              !.doc.texts = 0]
    /\ ProgramIdle

\* expat delivers a run of character data of the element it is in
X_CharData(s, realloc_ok) ==
    /\ parse.pos \in {"title", "description"}
    /\ parse.doc.texts < MaxTexts
    /\ parse' = [parse EXCEPT
           !.ctx = char_data(@, s, realloc_ok),
           !.doc = IF parse.pos = "title"
                   THEN [@ EXCEPT
                            !.texts = @ + 1,
                            !.title_len = @ + s.len,
                            !.graphics_at =
                                IF @ = -1 /\ s.kind = "Graphics"
                                THEN parse.doc.title_len ELSE @]
                   ELSE [@ EXCEPT
                            !.texts = @ + 1,
                            !.first_src =
                                IF @ = NO_URL /\ s.kind = "src"
                                THEN ConeUrl(s.n) ELSE @]]
    /\ ProgramIdle

\* expat meets </title>
X_EndTitle ==
    /\ parse.pos = "title"
    /\ parse' = [parse EXCEPT !.pos = "item",
                              !.ctx = end_elem(@, "title", TRUE, TRUE),
                              !.doc.title_done = TRUE]
    /\ ProgramIdle

\* expat meets </description>
X_EndDescription ==
    /\ parse.pos = "description"
    /\ parse' = [parse EXCEPT !.pos = "item",
                              !.ctx = end_elem(@, "description", TRUE, TRUE),
                              !.doc.description_done = TRUE]
    /\ ProgramIdle

\* expat meets </item>. The document side records the URL of the item when
\* its title text contains "Graphics" (by_title), and when the title bytes
\* that fit in ctx.title do (by_stored_title).
X_EndItem(realloc_ok, strdup_ok) ==
    /\ parse.pos = "item"
    /\ LET c == end_elem(parse.ctx, "item", realloc_ok, strdup_ok)
           doc == parse.doc
           has_src == doc.first_src # NO_URL
           in_title == doc.graphics_at >= 0
           in_stored == /\ doc.graphics_at >= 0
                        /\ doc.graphics_at + GRAPHICS_LEN <= TITLE_SIZE - 1
       IN  parse' = [parse EXCEPT
               !.pos = IF c.fault THEN "fault" ELSE "channel",
               !.ctx = c,
               !.doc.by_title =
                   IF in_title /\ has_src THEN Append(@, doc.first_src) ELSE @,
               !.doc.by_stored_title =
                   IF in_stored /\ has_src THEN Append(@, doc.first_src) ELSE @]
    /\ ProgramIdle

\* XML_Parse returns nonzero at the end of the document (xml_parse.c:228-251)
X_Return ==
    /\ parse.pos = "channel"
    /\ parse' = [parse EXCEPT
           !.pos = "done",
           !.result = IF parse.ctx.url_count = 0
                      THEN NoResult
                      ELSE [null |-> FALSE,
                            urls |-> parse.ctx.all_urls.urls,
                            count |-> parse.ctx.url_count]]
    /\ ProgramIdle

\* XML_Parse returns 0: the document is malformed or truncated at this point
\* (xml_parse.c:216-227); xml_parse_free_urls releases what was collected
X_ParseError ==
    /\ parse.pos \in {"channel", "item", "title", "description"}
    /\ parse' = [parse EXCEPT
           !.pos = "error",
           !.ctx.all_urls = [allocated |-> FALSE, urls |-> << >>],
           !.result = NoResult]
    /\ ProgramIdle

ParseNext ==
    \/ \E malloc_ok \in ParseMallocResults : X_Begin(malloc_ok)
    \/ \E malloc_ok \in ParseMallocResults : X_StartItem(malloc_ok)
    \/ X_StartTitle
    \/ X_StartDescription
    \/ \E s \in Texts, realloc_ok \in ParseMallocResults :
           X_CharData(s, realloc_ok)
    \/ X_EndTitle
    \/ X_EndDescription
    \/ \E realloc_ok \in ParseMallocResults, strdup_ok \in ParseMallocResults :
           X_EndItem(realloc_ok, strdup_ok)
    \/ X_Return
    \/ X_ParseError

ParseSpec == Init /\ [][ParseNext]_vars


(***************************************************************************)
(* Properties                                                              *)
(***************************************************************************)
\* the descriptor of a slot is the product of a successful decode of the
\* buffer the slot holds now
DecodedFromCurrentBuffer(slot) ==
    /\ slot.buffer # NULL
    /\ slot.img_dsc.data = slot.buffer
    /\ slot.img_dsc.w = slot.content.w
    /\ slot.img_dsc.h = slot.content.h
    /\ slot.img_dsc.cf = MapColorFormat(slot.content.cf)
    /\ slot.img_dsc.data_size =
           slot.content.w * slot.content.h * BytesPerPixel(slot.img_dsc.cf)
    /\ slot.img_dsc.data_size + IMAGE_HEADER_SIZE <= slot.buffer_size

\* C1: whenever display_image_task is about to read the validity flag of the
\* slot under the cursor and finds it true, that slot's descriptor was produced
\* by a successful process_downloaded_image on the slot's current buffer, so
\* payloadSize + 12 <= buffer_size; no step of the fetch marks a slot valid
\* before it is decoded.
C1_ValidMeansDecoded ==
    (/\ dpc = "scan"
     /\ d.attempts < d.images_to_check
     /\ s_images[s_current_image_index].is_valid)
        => DecodedFromCurrentBuffer(s_images[s_current_image_index])

\* the refresh pipeline is between the first and the last write of a slot:
\* from the first reset_image_buffer to the end of the processing loop
RefreshWriting ==
    \/ upc \in {"image_perform", "image_check", "process"}
    \/ upc = "download_all" /\ u.i > 0

\* C2: no signal that wakes display_image_task (xTaskNotifyGive of
\* update_image_task, vTaskNotifyGiveFromISR of image_cycle_timer_callback) is
\* delivered while the refresh pipeline is between the first and the last
\* write of a slot.
C2_NoSignalDuringSlotWrites ==
    [][(notify' > notify) => ~RefreshWriting]_vars

CursorWritten == s_current_image_index' # s_current_image_index

PublishedWritten == s_current_display_image' # s_current_display_image

\* C3: the carousel cursor and the published-image reference are
\* written by update_image_task only.
C3_OnlyProducerWrites ==
    [][(CursorWritten \/ PublishedWritten) => UpdateStep]_vars

\* C4: size <= capacity for the feed buffer and for every image slot buffer,
\* after every HTTP event, whatever Content-Length and chunks arrive.
C4_SizeWithinCapacity ==
    /\ xml_response.buffer_size <= xml_response.buffer_allocated
    /\ \A i \in Slots : s_images[i].buffer_size <= s_images[i].buffer_allocated

\* the Content-Length the feed buffer was allocated for
DeclaredLength == xml_response.buffer_allocated - SLACK

\* C5 as stated: when the body delivered is longer than the declared
\* Content-Length L, the feed buffer ends up holding exactly the first L bytes.
C5_DeclaredLengthIsCeiling ==
    (/\ upc = "xml_check"
     /\ xml_response.buffer # NULL
     /\ http.sent > DeclaredLength)
        => xml_response.segs = << << 0, DeclaredLength >> >>

\* C5 as amended: the ceiling is the allocation of L + 1024 bytes, not L: the
\* feed buffer always holds fewer bytes than its allocation, and as long as the
\* body delivered since the allocation is shorter than the allocation nothing
\* is dropped (L = 100 and chunks 40+40+40 leave all 120 bytes in the buffer).
C5_AllocationIsCeiling ==
    (upc \in {"xml_perform", "xml_check"} /\ xml_response.buffer # NULL) =>
        /\ xml_response.buffer_size < xml_response.buffer_allocated
        /\ (/\ http.sent < xml_response.buffer_allocated
            /\ xml_response.segs # << >>
            /\ xml_response.segs[1][1] = 0)
               => xml_response.segs = << << 0, http.sent >> >>

\* Content-Length 100, chunks 40+40+40, all 120 bytes kept
C5_AllChunksKept ==
    /\ upc = "xml_check"
    /\ xml_response.buffer_allocated = 100 + SLACK
    /\ http.ndata = 3
    /\ http.sent = 120
    /\ xml_response.segs = << << 0, 120 >> >>

\* C6: every data event of n bytes on an allocated buffer appends exactly
\* min(capacity - size, n) bytes, in both handlers.
C6_AppendsMinOfRoomAndChunk ==
    [][/\ (/\ upc = "xml_perform"
           /\ http'.ndata = http.ndata + 1
           /\ xml_response.buffer # NULL)
              => xml_response'.buffer_size = xml_response.buffer_size
                     + Min(xml_response.buffer_allocated - xml_response.buffer_size,
                           http'.sent - http.sent)
       /\ (/\ upc = "image_perform"
           /\ http'.ndata = http.ndata + 1
           /\ s_images[u.i].buffer # NULL)
              => s_images'[u.i].buffer_size = s_images[u.i].buffer_size
                     + Min(s_images[u.i].buffer_allocated - s_images[u.i].buffer_size,
                           http'.sent - http.sent)]_vars

\* transport success, status 200, non-null buffer, size > 0
FetchConditions(err, status_code, buffer, buffer_size) ==
    /\ err = ESP_OK
    /\ status_code = 200
    /\ buffer # NULL
    /\ buffer_size > 0

\* C7 as stated: either fetch reports success exactly when the transport
\* succeeded, the status is 200, the buffer is non-null and size > 0.
C7_SuccessIffFourConditions ==
    [][/\ upc = "xml_check" =>
              (u'.err = ESP_OK <=>
                  FetchConditions(http.err, http.status_code,
                      xml_response.buffer, xml_response.buffer_size))
       /\ upc = "image_check" =>
              (u'.successful_downloads = u.successful_downloads + 1 <=>
                  FetchConditions(http.err, http.status_code,
                      s_images[u.i].buffer, s_images[u.i].buffer_size))]_vars

\* C7 as amended: http_download_xml_feed reports success exactly under the four
\* conditions; http_download_image reports success exactly under the four
\* conditions and buffer_size >= 100, and a download is counted as successful
\* nowhere else.
C7_SuccessConditions ==
    [][/\ upc = "xml_check" =>
              (u'.err = ESP_OK <=>
                  FetchConditions(http.err, http.status_code,
                      xml_response.buffer, xml_response.buffer_size))
       /\ upc = "image_check" =>
              (u'.successful_downloads = u.successful_downloads + 1 <=>
                  /\ FetchConditions(http.err, http.status_code,
                         s_images[u.i].buffer, s_images[u.i].buffer_size)
                  /\ s_images[u.i].buffer_size >= MIN_VALID_IMAGE_SIZE)
       /\ u'.successful_downloads > u.successful_downloads
              => upc = "image_check"]_vars

\* http_download_image is about to decide on a body of 1..99 bytes that came
\* with transport success and status 200
C7_SmallBodyFetched ==
    /\ upc = "image_check"
    /\ http.err = ESP_OK
    /\ http.status_code = 200
    /\ s_images[u.i].buffer # NULL
    /\ s_images[u.i].buffer_size > 0
    /\ s_images[u.i].buffer_size < MIN_VALID_IMAGE_SIZE

\* C8: after a failing fetch the buffer is released: the feed result is NULL
\* with size 0, and slot i holds no buffer after a failing
\* http_download_image(i) (the slot just fetched is the one before u.i; its
\* fetch failed exactly when it was left not valid).
C8_FailedFetchReleasesBuffer ==
    /\ (upc = "urls_assign" /\ u.err # ESP_OK) =>
           xml_response.buffer = NULL /\ xml_response.buffer_size = 0
    /\ (upc = "download_all" /\ u.i > 0 /\ ~s_images[u.i - 1].is_valid) =>
           /\ s_images[u.i - 1].buffer = NULL
           /\ s_images[u.i - 1].buffer_size = 0

ValidSlots == {i \in Slots : s_images[i].is_valid}

\* C9: when exactly one slot k < active_image_count is valid, a call of
\* get_next_valid_image that starts from any reachable cursor returns slot k.
C9_SingleValidSlotFound ==
    \A k \in Slots :
        (k < active_image_count /\ ValidSlots = {k}) =>
            /\ (/\ upc = "publish_scan"
                /\ u.attempts = 0
                /\ u.images_to_check = ImagesToCheck(active_image_count))
                   => GetNextRun(s_images, s_current_image_index, 0,
                                 u.images_to_check).ret = << "slot", k >>
            /\ (/\ dpc = "scan"
                /\ d.attempts = 0
                /\ d.images_to_check = ImagesToCheck(active_image_count))
                   => GetNextRun(s_images, s_current_image_index, 0,
                                 d.images_to_check).ret = << "slot", k >>

\* the slot inspected after t advances of the cursor
CyclicPos(cursor, t, images_to_check) ==
    IF t = 0 THEN cursor ELSE (cursor + t) % images_to_check

\* a call of get_next_valid_image that has made attempts inspections returns
\* within images_to_check inspections in all, with the first valid slot of
\* the cyclic order or, when it met none, with the fallback
ScanTerminates(attempts, images_to_check) ==
    LET r == GetNextRun(s_images, s_current_image_index, attempts,
                        images_to_check)
        n == r.attempts - attempts
    IN  /\ images_to_check \in 1 .. MAX_IMAGES
        /\ attempts <= images_to_check
        /\ r.attempts <= images_to_check
        /\ \A t \in 0 .. (n - 1) :
               ~s_images[CyclicPos(s_current_image_index, t,
                                   images_to_check)].is_valid
        /\ r.ret = ERROR_IMAGE => r.attempts = images_to_check
        /\ r.ret # ERROR_IMAGE =>
               /\ r.attempts < images_to_check
               /\ r.ret = << "slot", CyclicPos(s_current_image_index, n,
                                               images_to_check) >>
               /\ s_images[r.ret[2]].is_valid
        /\ ValidSlots = {} =>
               r.ret = ERROR_IMAGE /\ r.attempts = images_to_check

\* C10: get_next_valid_image terminates after at most images_to_check
\* inspections (active_image_count, or MAX_IMAGES when that is 0), advancing
\* the cursor modulo that count; it returns the first valid slot in that
\* cyclic order, and the fallback after exactly images_to_check inspections
\* when every slot is invalid.
C10_ScanBounded ==
    /\ upc = "publish_scan" =>
           /\ ScanTerminates(u.attempts, u.images_to_check)
           /\ u.images_to_check = ImagesToCheck(active_image_count)
    /\ dpc = "scan" => ScanTerminates(d.attempts, d.images_to_check)

\* display_image_task has inspected images_to_check slots and found none valid
C10_AllInspectedNoneValid ==
    /\ dpc = "scan"
    /\ d.attempts = d.images_to_check
    /\ ValidSlots = {}

C12_PartialResultOnParseError ==
    parse.pos = "error" =>
        /\ parse.result.urls = parse.doc.by_stored_title
        /\ parse.result.count = parse.ctx.url_count

\* C13: for a slot whose buffer holds fewer than 12 bytes (or that has no
\* buffer), process_downloaded_image fails and reads no byte at or beyond
\* buffer_size, and the processing loop of the refresh cycle leaves the slot
\* not valid and does not count it as processed.
C13_ShortBufferFailsUnread ==
    [][(/\ upc = "process"
        /\ u.i < MAX_IMAGES
        /\ s_images[u.i].buffer_size < IMAGE_HEADER_SIZE)
           => LET r == process_downloaded_image(s_images[u.i], u.cycle)
              IN  /\ r.ret = ESP_FAIL
                  /\ r.read <= s_images[u.i].buffer_size
                  /\ ~s_images'[u.i].is_valid
                  /\ u'.processed_images = u.processed_images]_vars

\* the processing loop has passed slot 0, which holds a body of 11 bytes
C13_ElevenByteBodyProcessed ==
    /\ upc = "process"
    /\ u.i = 1
    /\ s_images[0].buffer # NULL
    /\ s_images[0].buffer_size = 11
    /\ ~s_images[0].is_valid

\* the header fields fail the dimension check
InvalidDimensions(hdr) ==
    hdr.w = 0 \/ hdr.h = 0 \/ hdr.w > MAX_DIMENSION \/ hdr.h > MAX_DIMENSION

\* C14: for a buffer of at least 12 bytes whose header has width 0, height 0,
\* width > 4096 or height > 4096, process_downloaded_image fails and the
\* slot's validity flag is false afterwards, whatever the magic, the format
\* and the buffer size.
C14_InvalidDimensionsFail ==
    [][(/\ upc = "process"
        /\ u.i < MAX_IMAGES
        /\ s_images[u.i].buffer # NULL
        /\ s_images[u.i].buffer_size >= IMAGE_HEADER_SIZE
        /\ InvalidDimensions(s_images[u.i].content))
           => LET r == process_downloaded_image(s_images[u.i], u.cycle)
              IN  /\ r.ret = ESP_FAIL
                  /\ ~r.slot.is_valid
                  /\ ~s_images'[u.i].is_valid
                  /\ u'.processed_images = u.processed_images]_vars

\* slot 0 holds a body large enough for a 4097 x 4 image and the decoder has
\* rejected its width of 4097
C14_TooWideRejected ==
    /\ upc = "process"
    /\ u.i = 1
    /\ s_images[0].buffer_size = 67108876
    /\ s_images[0].content.w = 4097
    /\ s_images[0].content.h = 4
    /\ s_images[0].img_dsc.w = 4097
    /\ ~s_images[0].is_valid

\* the pixel format a colour-format code of the container stands for, and the
\* bytes one pixel takes in it, as the container format defines them
PixelFormat(code) ==
    IF code = 18 THEN "RGB565"
    ELSE IF code = 15 THEN "RGB888"
    ELSE IF code = 16 THEN "ARGB8888"
    ELSE IF code = 17 THEN "XRGB8888"
    ELSE IF code = 20 THEN "RGB565A8"
    ELSE IF code = 19 THEN "ARGB8565"
    ELSE IF code = 6 THEN "L8"
    ELSE "RGB565"

PixelBytes(format) ==
    IF format = "RGB565" THEN 2
    ELSE IF format \in {"RGB888", "RGB565A8", "ARGB8565"} THEN 3
    ELSE IF format \in {"ARGB8888", "XRGB8888"} THEN 4
    ELSE 1

PayloadSize(hdr) == hdr.w * hdr.h * PixelBytes(PixelFormat(hdr.cf))

\* C15: for a container with 0 < width, height <= 4096 in a buffer of exactly
\* width*height*bytesPerPixel + 12 bytes, process_downloaded_image succeeds,
\* the slot is valid afterwards, and the descriptor carries the header's width
\* and height, the mapped format, the payload at offset 12 of the buffer and
\* data_size = width*height*bytesPerPixel, whatever the magic byte is.
C15_ExactContainerDecodes ==
    [][(/\ upc = "process"
        /\ u.i < MAX_IMAGES
        /\ s_images[u.i].buffer # NULL
        /\ ~InvalidDimensions(s_images[u.i].content)
        /\ s_images[u.i].buffer_size =
               PayloadSize(s_images[u.i].content) + IMAGE_HEADER_SIZE)
           => LET hdr == s_images[u.i].content
                  r == process_downloaded_image(s_images[u.i], u.cycle)
                  dsc == s_images'[u.i].img_dsc
              IN  /\ r.ret = ESP_OK
                  /\ u'.processed_images = u.processed_images + 1
                  /\ s_images'[u.i].is_valid
                  /\ dsc.w = hdr.w
                  /\ dsc.h = hdr.h
                  /\ dsc.cf = PixelFormat(hdr.cf)
                  /\ dsc.data = s_images[u.i].buffer
                  /\ dsc.data_offset = 12
                  /\ dsc.data_size = PayloadSize(hdr)]_vars

\* slot 0 holds a 4096 x 4096 ARGB8888 container with a magic byte other than
\* 0x19 and has been decoded
C15_LargestContainerDecoded ==
    /\ upc = "process"
    /\ u.i = 1
    /\ s_images[0].content = [magic |-> 0, cf |-> 16, w |-> 4096, h |-> 4096]
    /\ s_images[0].buffer_size = 67108876
    /\ s_images[0].is_valid
    /\ s_images[0].img_dsc.data_size = 67108864

KnownFormatCodes == {18, 15, 16, 17, 20, 19, 6}

\* C16: a colour-format code outside {0x12, 0x0F, 0x10, 0x11, 0x14, 0x13, 0x06}
\* does not make process_downloaded_image fail: the container is decoded as
\* RGB565 with 2 bytes per pixel, so the value returned, the descriptor and
\* the validity flag are those that code 0x12 gives on the same buffer.
C16_UnknownFormatIsRgb565 ==
    [][(/\ upc = "process"
        /\ u.i < MAX_IMAGES
        /\ s_images[u.i].buffer # NULL
        /\ s_images[u.i].buffer_size >= IMAGE_HEADER_SIZE
        /\ s_images[u.i].content.cf \notin KnownFormatCodes)
           => LET slot == s_images[u.i]
                  r == process_downloaded_image(slot, u.cycle)
                  r18 == process_downloaded_image(
                             [slot EXCEPT !.content.cf = 18], u.cycle)
              IN  /\ r.ret = r18.ret
                  /\ s_images'[u.i].img_dsc = r18.slot.img_dsc
                  /\ s_images'[u.i].is_valid = (r18.ret = ESP_OK)
                  /\ ~InvalidDimensions(slot.content) =>
                         /\ s_images'[u.i].img_dsc.cf = "RGB565"
                         /\ s_images'[u.i].is_valid <=>
                                slot.buffer_size >=
                                    slot.content.w * slot.content.h * 2
                                        + IMAGE_HEADER_SIZE]_vars

\* slot 0 holds an 11 x 4 container of format code 0xFF in 100 bytes and has
\* been decoded as RGB565
C16_UnknownCodeDecoded ==
    /\ upc = "process"
    /\ u.i = 1
    /\ s_images[0].content.cf = 255
    /\ s_images[0].content.w = 11
    /\ s_images[0].content.h = 4
    /\ s_images[0].buffer_size = 100
    /\ s_images[0].is_valid
    /\ s_images[0].img_dsc.cf = "RGB565"
    /\ s_images[0].img_dsc.data_size = 88

\* the product width * height * bytesPerPixel fits the 32 bits of a size_t
FitsSizeT(hdr) ==
    (hdr.w * hdr.h * PixelBytes(PixelFormat(hdr.cf))) \div 65536 < 65536

\* C17: with payloadSize = width*height*bytesPerPixel (2 for RGB565; 3 for
\* RGB888, RGB565A8, ARGB8565; 4 for ARGB8888, XRGB8888; 1 for L8), given
\* valid dimensions process_downloaded_image fails and the slot is invalid
\* afterwards exactly when buffer_size < payloadSize + 12, and the product
\* does not wrap.
C17_TruncatedPayloadFails ==
    [][(/\ upc = "process"
        /\ u.i < MAX_IMAGES
        /\ s_images[u.i].buffer # NULL
        /\ s_images[u.i].buffer_size > 0
        /\ ~InvalidDimensions(s_images[u.i].content))
           => LET slot == s_images[u.i]
                  r == process_downloaded_image(slot, u.cycle)
                  truncated == slot.buffer_size <
                                   PayloadSize(slot.content) + IMAGE_HEADER_SIZE
              IN  /\ FitsSizeT(slot.content)
                  /\ r.ret = ESP_FAIL <=> truncated
                  /\ ~s_images'[u.i].is_valid <=> truncated
                  /\ ~truncated =>
                         s_images'[u.i].img_dsc.data_size
                             = PayloadSize(slot.content)]_vars

\* slot 0 holds an 11 x 4 XRGB8888 container one byte short of its 188 bytes
\* and has been rejected by the decoder
C17_OneByteShortRejected ==
    /\ upc = "process"
    /\ u.i = 1
    /\ s_images[0].content.cf = 17
    /\ s_images[0].content.w = 11
    /\ s_images[0].content.h = 4
    /\ s_images[0].buffer_size = 187
    /\ s_images[0].img_dsc.cf = "XRGB8888"
    /\ ~s_images[0].is_valid

\* the slot-assignment list for the extracted URLs: the fixed leading URLs,
\* then the first extracted URLs that fit
SlotAssignment(extracted) ==
    [i \in Slots |->
        IF i < STATIC_IMAGE_COUNT THEN StaticUrl(i)
        ELSE IF i - STATIC_IMAGE_COUNT <
                    Min(Len(extracted), MAX_IMAGES - STATIC_IMAGE_COUNT)
             THEN extracted[i - STATIC_IMAGE_COUNT + 1]
             ELSE NO_URL]

C19_ActiveCountInRange ==
    active_image_count >= 0 /\ active_image_count <= MAX_IMAGES

\* the second refresh cycle has filled every slot again
C19_SecondCycleFull ==
    /\ upc = "download_all"
    /\ u.cycle = 2
    /\ active_image_count = MAX_IMAGES

\* C20: active_image_count is set once per refresh cycle: whenever it changes
\* it goes directly to the count of the new assignment list, with which the
\* cycle goes on to the downloads; no intermediate value such as 0 is ever
\* stored.
C20_ActiveCountSetOnce ==
    [][active_image_count' # active_image_count
           => /\ upc = "urls_assign"
              /\ upc' = "download_all"
              /\ active_image_count' >= Min(STATIC_IMAGE_COUNT, MAX_IMAGES)]_vars

\* a slot assigned in the running cycle whose decode succeeded in that cycle
DecodedThisCycle(i) ==
    /\ i < active_image_count
    /\ image_urls[i] # NO_URL
    /\ s_images[i].is_valid
    /\ s_images[i].download_timestamp = u.cycle

\* C21: a fetch or decode step of update_image_task changes only the slot it
\* is working on, a failure leaves the loop on its way to the next slot (the
\* download loop goes through every assigned slot in order, the processing
\* loop through every slot), and when the cycle leaves its loops it takes the
\* success path (publish a slot image, arm the timer) exactly when at least
\* one slot assigned in this cycle decoded successfully in it.
C21_SuccessPathIffAssignedSlotDecoded ==
    [][/\ \A j \in Slots : s_images'[j] # s_images[j] => j = u.i
       /\ (upc \in {"image_check", "process"} /\ upc' = upc /\ u' # u)
              => u'.i = u.i + 1
       /\ (upc = "image_check" /\ upc' # upc) => upc' = "download_all"
                                                 /\ u'.i = u.i + 1
       /\ (upc \in {"download_all", "process"}
           /\ upc' \in {"publish_scan", "publish_error"})
              => (upc' = "publish_scan"
                     <=> \E i \in Slots : DecodedThisCycle(i))]_vars

\* C22: update_image_task calls xTaskNotifyGive exactly once in every refresh
\* cycle, whatever its outcome: the call is the last step of the cycle (the
\* task is back at its poll after it), it is the only one when the task is
\* back at its poll, and no slot is written between the call and the next
\* cycle.
C22_OneSignalPerCycle ==
    [][/\ signal'.given # signal.given /\ signal'.given # 0
           => /\ upc \in {"publish_notify", "publish_error"}
              /\ upc' = "poll"
              /\ signal'.given = 1
              /\ notify' >= 1
       /\ (upc' = "poll" /\ u'.cycle > 0) => signal'.given = 1
       /\ s_images' # s_images => signal.given = 0]_vars

\* the second cycle has ended in partial success: slot 0 decoded, slot 1 did
\* not, and the one signal of the cycle is pending
C22_PartialSuccessSignalled ==
    /\ upc = "poll"
    /\ u.cycle = 2
    /\ signal.given = 1
    /\ signal.pending = [kind |-> "image", cycle |-> 2]
    /\ s_images[0].is_valid
    /\ ~s_images[1].is_valid

\* the valid slots of the active range
ValidActive == {i \in Slots : i < active_image_count /\ s_images[i].is_valid}

\* the lowest-index valid slot of the active range
FirstValid == CHOOSE i \in ValidActive : \A j \in ValidActive : i <= j

\* display_image_task renders for the notification update_image_task gave at
\* the end of its last cycle, and that cycle is still the last one
RendersFor(kind) ==
    /\ dpc = "render"
    /\ dpc' = "advance"
    /\ upc = "poll"
    /\ signal.taken = [kind |-> kind, cycle |-> u.cycle]

\* C23: when a cycle in which a slot of the active range decoded completes,
\* s_current_image_index is the lowest-index valid slot of the active range
\* and s_current_display_image is that slot's image, and the render made for
\* the cycle's notification shows that image.
C23_CursorAtFirstValid ==
    [][/\ (upc = "publish_scan" /\ upc' = "publish_notify"
           /\ ValidActive # {})
              => /\ s_current_image_index' = FirstValid
                 /\ s_current_display_image' = << "slot", FirstValid >>
       /\ (RendersFor("image") /\ ValidActive # {})
              => rendered' = << "slot", FirstValid >>]_vars

\* C24: after a cycle in which no image decoded, update_image_task is back at
\* its poll, and the render display_image_task makes for the notification of
\* that cycle shows error_image.
C24_TotalFailureShowsErrorImage ==
    [][/\ (upc = "publish_error" /\ upc' # upc) => upc' = "poll"
       /\ RendersFor("error") => rendered' = ERROR_IMAGE]_vars

\* a slot whose descriptor was filled by a successful decode of an earlier
\* cycle: it points into the buffer that cycle allocated
PreviouslyDecoded(i) ==
    /\ s_images[i].img_dsc.data_size > 0
    /\ s_images[i].img_dsc.data # NULL
    /\ s_images[i].img_dsc.data < u.cycle

\* C25: when a cycle ends in failure, the slots decoded in an earlier cycle
\* are still valid, with the buffer their descriptor points into, and
\* error_image is rendered for the cycle's notification only if there is no
\* such slot.
C25_FailedCycleKeepsOldImages ==
    [][/\ (upc = "publish_error" /\ upc' = "poll")
              => \A i \in Slots :
                     PreviouslyDecoded(i)
                         => /\ s_images'[i].is_valid
                            /\ s_images'[i].buffer = s_images'[i].img_dsc.data
       /\ (RendersFor("error") /\ rendered' = ERROR_IMAGE)
              => \A i \in Slots : ~PreviouslyDecoded(i)]_vars

\* C26: display_image_task leaves its wait only when at least one notification
\* is pending and takes all of them at once (signals given before it waits
\* again are all taken by its next wake-up), it renders only after a wake-up
\* that took a notification, and at most once per wake-up, so never more often
\* than it was signalled.
C26_OneRenderPerWakeUp ==
    [][/\ (dpc = "wait" /\ dpc' # "wait")
              => /\ notify > 0
                 /\ notify' = 0
                 /\ signal'.count = notify
       /\ (dpc = "render" /\ dpc' # "render")
              => /\ signal.count > 0
                 /\ signal.renders = 0
                 /\ signal'.renders = 1
       /\ rendered' # rendered => dpc = "render"
       /\ signal'.renders <= signal'.count
       /\ signal'.renders <= 1]_vars

\* MaxSignals notifications were pending at a wake-up and one render followed
C26_ThreeSignalsOneRender ==
    /\ dpc = "advance"
    /\ signal.count = MaxSignals
    /\ signal.renders = 1
    /\ s_image_cycle_timer = "running"

\* C27: with a touchscreen or a PIR sensor configured, from every state
\* reached after start-up the backlight is eventually off unless a further
\* activity event is reported: the expiry of the timer the last event (or
\* start-up) armed turns it off, whatever the interleaving of the callback
\* with the activity handler and whichever of their lock acquisitions time
\* out.
C27_ExpiryTurnsOff ==
    \A n \in 0 .. MaxEvents :
        (light.booted /\ light.input # "none" /\ light.events = n)
            ~> (~light.backlight_on \/ light.events > n)

\* every event has been handled, the timer the last one armed has expired and
\* its callback has turned the backlight off
C27_OffAfterLastEvent ==
    /\ light.booted
    /\ light.input = "touch"
    /\ light.events = MaxEvents
    /\ light.pc = [timer |-> "idle", input |-> "idle"]
    /\ light.backlight_timer = "dormant"
    /\ light.state.timer
    /\ ~light.backlight_on

\* C28: with neither touchscreen nor PIR sensor configured, backlight_on is
\* true in every state after start-up, and whenever the timer service task
\* is not inside the callback the one-shot timer is armed: every expiry has
\* re-armed it.
C28_NoInputNeverOff ==
    (light.booted /\ light.input = "none")
        => /\ light.backlight_on
           /\ light.pc.timer = "idle" => light.backlight_timer = "active"

\* no activity input: the timer has expired, the callback has read the flag
\* and re-armed the timer
C28_RearmedAfterExpiry ==
    /\ light.booted
    /\ light.input = "none"
    /\ light.state.timer
    /\ light.pc.timer = "idle"
    /\ light.backlight_timer = "active"
    /\ light.backlight_on

\* C29: backlight_timer is one-shot (it leaves the armed state only by
\* expiring, and its callback runs once per expiry), app_main arms it, the
\* handler of every activity event ends by arming it again for its full
\* period whatever the state of the backlight, and a handler that started
\* with the backlight off does not pass set_backlight_state(true) without
\* the backlight being on.
C29_ActivityRearmsAndLights ==
    [][/\ (~light.booted /\ light'.booted)
              => light'.backlight_timer = "active"
       /\ (light.backlight_timer = "active"
           /\ light'.backlight_timer # "active")
              => /\ light.pc.timer = "idle"
                 /\ light'.pc.timer = "get_take"
       /\ (light.pc.input # "idle" /\ light'.pc.input = "idle")
              => /\ light.pc.input = "reset"
                 /\ light'.backlight_timer = "active"
       /\ (light.was_off /\ light.pc.input # "reset"
           /\ light'.pc.input = "reset")
              => light'.backlight_on]_vars

\* C30: at most one of the timer callback and the activity handler (touch
\* callback or PIR task) holds backlight_mutex; a task holds it exactly
\* while it is between the take and the give of get_backlight_state or
\* set_backlight_state, never while it waits for the mutex, for an event or
\* for the timer, and its next step gives it back; backlight_on changes
\* only in a step of a task that holds the mutex inside set_backlight_state,
\* and a task obtains the value true only by reading it while holding the
\* mutex.
C30_AccessUnderMutex ==
    /\ [](/\ Cardinality(light.backlight_mutex) <= 1
          /\ \A p \in Users :
                 p \in light.backlight_mutex
                     <=> light.pc[p] \in {"get_read", "set_write"})
    /\ [][/\ (light.booted /\ light'.backlight_on # light.backlight_on)
                 => \E p \in Users :
                        /\ p \in light.backlight_mutex
                        /\ light.pc[p] = "set_write"
                        /\ light'.pc[p] # "set_write"
          /\ \A p \in Users :
                 /\ (light.booted /\ ~light.state[p] /\ light'.state[p])
                        => /\ p \in light.backlight_mutex
                           /\ light.pc[p] = "get_read"
                           /\ light.backlight_on
                 /\ (p \in light.backlight_mutex
                     /\ light'.pc[p] # light.pc[p])
                        => p \notin light'.backlight_mutex]_vars

\* the activity handler writes under the mutex while the timer callback is
\* about to ask for it
C30_WriterHoldsWhileOtherAsks ==
    /\ light.backlight_mutex = {"input"}
    /\ light.pc.input = "set_write"
    /\ light.pc.timer \in {"get_take", "set_take"}

\* the active list is exactly the fixed leading images
FixedListOnly ==
    /\ active_image_count = STATIC_IMAGE_COUNT
    /\ \A i \in Slots :
           image_urls[i] = IF i < STATIC_IMAGE_COUNT THEN StaticUrl(i)
                           ELSE NO_URL

\* C31: when the feed fetch has failed, http_update_image_urls_from_xml
\* leaves exactly the fixed leading images as the active list
\* (active_image_count = STATIC_IMAGE_COUNT, no other URL), and a cycle that
\* runs with that list takes the success path exactly when one of the fixed
\* images decoded in it; otherwise it ends by publishing error_image.
C31_FeedFailureUsesFixedImages ==
    [][/\ (upc = "urls_assign" /\ upc' = "download_all" /\ u.err # ESP_OK)
              => FixedListOnly'
       /\ (FixedListOnly /\ upc \in {"download_all", "process"}
           /\ upc' \in {"publish_scan", "publish_error"})
              => (upc' = "publish_scan"
                     <=> \E i \in Slots : /\ i < STATIC_IMAGE_COUNT
                                          /\ DecodedThisCycle(i))
       /\ (FixedListOnly /\ upc = "publish_error" /\ upc' = "poll")
              => s_current_display_image' = ERROR_IMAGE]_vars

\* C32: whenever update_image_task is at its poll after a refresh cycle and
\* some slot is valid, s_image_cycle_timer is running, and no step of a later
\* cycle, failing or not, leaves a running timer stopped.
C32_TimerRunsOnceAnImageIsValid ==
    /\ []((upc = "poll" /\ u.cycle > 0 /\ \E i \in Slots : s_images[i].is_valid)
              => s_image_cycle_timer = "running")
    /\ [][s_image_cycle_timer = "running"
              => s_image_cycle_timer' = "running"]_vars

\* C33: http_update_image_urls_from_xml returns ESP_OK when the feed download
\* succeeded and ESP_FAIL when it failed.
C33_FeedFailureReturnsFail ==
    [][(upc = "urls_assign" /\ upc' = "download_all")
           => u'.err = IF u.err = ESP_OK THEN ESP_OK ELSE ESP_FAIL]_vars

\* C34: with every network call returning, update_image_task always comes
\* back to its poll from wherever it is in a refresh cycle, whatever the feed,
\* the fetches, the allocations and the decodes did, display_image_task
\* always comes back to its wait, and a cycle starts only from the poll, with
\* no HTTP exchange of the previous cycle in flight.
C34_CycleCompletes ==
    /\ (upc # "poll") ~> (upc = "poll")
    /\ (dpc # "wait") ~> (dpc = "wait")
    /\ [][u'.cycle # u.cycle
              => /\ upc = "poll"
                 /\ http = NoExchange
                 /\ upc' = "xml_perform"
                 /\ u'.cycle = u.cycle + 1]_vars


\* the second cycle has failed altogether (no slot valid, error_image
\* published and signalled) and update_image_task is back at its poll
C34_SecondCycleFailedAndCompleted ==
    /\ upc = "poll"
    /\ u.cycle = 2
    /\ signal.given = 1
    /\ s_current_display_image = ERROR_IMAGE
    /\ \A i \in Slots : ~s_images[i].is_valid

\* C35: the buffer the descriptor of a shown slot points into has not been
\* freed: for the slot whose descriptor is published in
\* s_current_display_image or was last handed to the render sink, the buffer
\* of the slot is still the one its descriptor points into.
C35_ShownBufferAlive ==
    \A i \in Slots :
        (s_current_display_image = << "slot", i >> \/ rendered = << "slot", i >>)
            => \/ s_images[i].img_dsc.data = NULL
               \/ s_images[i].img_dsc.data = s_images[i].buffer

\* C36: s_current_image_index is always an index of s_images, whatever the
\* two callers of get_next_valid_image and the changes of active_image_count
\* do, and the modulus get_next_valid_image and display_image_task use
\* (active_image_count, or MAX_IMAGES when it is 0) is never 0 nor larger
\* than MAX_IMAGES.
C36_CursorInBounds ==
    /\ s_current_image_index \in 0 .. (MAX_IMAGES - 1)
    /\ active_image_count \in 0 .. MAX_IMAGES
    /\ ImagesToCheck(active_image_count) \in 1 .. MAX_IMAGES
    /\ upc = "publish_scan" => u.images_to_check \in 1 .. MAX_IMAGES
    /\ dpc = "scan" => d.images_to_check \in 1 .. MAX_IMAGES

\* display_image_task scans with the cursor on the last slot while the active
\* range has shrunk to the fixed images and excludes it
C36_CursorBeyondShrunkRange ==
    /\ dpc = "scan"
    /\ s_current_image_index = MAX_IMAGES - 1
    /\ active_image_count = STATIC_IMAGE_COUNT
    /\ d.images_to_check = STATIC_IMAGE_COUNT

\* C37: when active_image_count > 0, a call of get_next_valid_image (by
\* update_image_task or display_image_task) that returns a slot image returns
\* one of a slot below active_image_count, and the processing loop of
\* update_image_task passes over a slot at or above active_image_count
\* without decoding it and without counting it.
C37_OnlyActiveRangeShown ==
    [][/\ (active_image_count > 0
           /\ \/ upc = "publish_scan" /\ upc' = "publish_notify"
              \/ dpc = "scan" /\ dpc' = "render")
              => \A i \in Slots :
                     s_current_display_image' = << "slot", i >>
                         => i < active_image_count
       /\ (upc = "process" /\ u.i < MAX_IMAGES /\ u.i >= active_image_count
           /\ u'.i = u.i + 1)
              => /\ s_images' = s_images
                 /\ u'.processed_images = u.processed_images]_vars

\* C38: a slot of the active range whose http_download_image failed in the
\* running cycle (it is not marked valid when the processing loop reaches it)
\* is passed over by the processing loop: it is not decoded, not counted and
\* not marked valid.
C38_FailedFetchNeverDecoded ==
    [][(upc = "process" /\ u.i < active_image_count /\ u'.i = u.i + 1
        /\ ~s_images[u.i].is_valid)
           => /\ ~s_images'[u.i].is_valid
              /\ s_images'[u.i].img_dsc = s_images[u.i].img_dsc
              /\ u'.processed_images = u.processed_images]_vars

\* the images the next k carousel ticks render when nothing but
\* display_image_task runs: each tick calls get_next_valid_image from the
\* cursor and then moves the cursor one slot on (main.c:661, 669-670)
RECURSIVE TickRenders(_, _)
TickRenders(cursor, k) ==
    IF k = 0 THEN << >>
    ELSE LET n == ImagesToCheck(active_image_count)
             r == GetNextRun(s_images, cursor, 0, n)
         IN  << r.ret >> \o TickRenders(NextIndex(r.cursor, n), k - 1)

\* the valid slot of the active range that follows slot j in cyclic order
NextValidAfter(j) ==
    CHOOSE i \in ValidActive :
        \A m \in ValidActive :
            (i - j - 1) % active_image_count <= (m - j - 1) % active_image_count

\* C39: between refresh cycles (update_image_task at its poll,
\* display_image_task waiting), the next v carousel ticks, v being the number
\* of valid slots of the active range, render every valid slot of the active
\* range exactly once, each tick the valid slot that follows the previous one
\* in cyclic index order.
C39_RoundRobinOverValidSlots ==
    (upc = "poll" /\ dpc = "wait" /\ u.cycle > 0 /\ ValidActive # {})
        => LET v == Cardinality(ValidActive)
               run == TickRenders(s_current_image_index, v)
           IN  /\ {run[k] : k \in 1 .. v} = {<< "slot", i >> : i \in ValidActive}
               /\ \A k \in 1 .. (v - 1) :
                      run[k + 1] = << "slot", NextValidAfter(run[k][2]) >>

\* C40: when the handler of an activity event ends (the timer re-armed), the
\* backlight is on, and it is on whenever the timer is armed and neither the
\* handler nor backlight_timer_callback is running, that is, from the end of
\* the handler until the timer expires again.
C40_OnAfterActivity ==
    /\ [][(light.pc.input = "reset" /\ light'.pc.input = "idle")
              => light'.backlight_on]_vars
    /\ []((light.booted /\ light.pc.input = "idle" /\ light.pc.timer = "idle"
           /\ light.backlight_timer = "active")
              => light.backlight_on)

=============================================================================
